---- MODULE Spec2Model ----
(***************************************************************************)
(* Model of the Krishi Sakhi chat pipeline (krishisakhi_api):              *)
(*   utils/translation_utils.py  translate_text                            *)
(*   utils/rag_utils.py          embed_texts, rag_retrieve                 *)
(*   utils/chatbot_utils.py      analyze_image_with_gemini,                *)
(*                               process_chat_query                       *)
(*   main.py                     lifespan, chat_with_assistant             *)
(*                                                                         *)
(* A Python str is a sequence of one-character strings.  Every external    *)
(* service (generative model, embedding, index search, speech, backend)    *)
(* is an input of the step that calls it: the step draws the outcome of    *)
(* the call (an exception or a value) from a bounded set.                  *)
(***************************************************************************)
EXTENDS Integers, Sequences, FiniteSets, TLC

VARIABLES inv,        \* the last direct call of a stage function (SpecUtils)
          pc,         \* control location of the request being handled
          app_state,  \* main.app_state
          chat,       \* locals of chat_with_assistant
          pcq,        \* frame of process_chat_query
          events,     \* external calls and stage boundaries, in order
          http        \* outcome of the request / of the pipeline run

vars == <<inv, pc, app_state, chat, pcq, events, http>>

-----------------------------------------------------------------------------
(* Bounds *)

MaxLen == 2        \* longest text drawn as an input or as a model answer
MaxK == 3          \* largest fan-out k
MaxDocs == 3       \* longest document list
MaxVectors == 3    \* largest index

-----------------------------------------------------------------------------
(* Python values *)

\* None: a value that is no str and no bytes (every character of a text is a
\* one-character string)
None == <<"None">>

Chars == {" ", "a"}
Whitespace == {" ", "\n", "\t"}

SeqsUpTo(S, n) == UNION {[1..m -> S] : m \in 0..n}

Texts == SeqsUpTo(Chars, MaxLen)

\* str.strip(): drop leading and trailing whitespace
RECURSIVE LStrip(_)
LStrip(s) == IF s /= <<>> /\ Head(s) \in Whitespace THEN LStrip(Tail(s)) ELSE s

RECURSIVE RStrip(_)
RStrip(s) ==
  IF s /= <<>> /\ s[Len(s)] \in Whitespace
    THEN RStrip(SubSeq(s, 1, Len(s) - 1))
    ELSE s

Strip(s) == RStrip(LStrip(s))

\* bool(x) of a str, bytes or None
Truthy(x) == x /= None /\ x /= <<>>

\* sub in s
HasSub(s, sub) ==
  \E i \in 0..(Len(s) - Len(sub)) : SubSeq(s, i + 1, i + Len(sub)) = sub

-----------------------------------------------------------------------------
(* config.py *)

Langs == {"en", "hi", "ml", "mr", "ta"}

SUPPORTED_LANGUAGES ==
  [c \in {"ml", "mr", "hi", "en"} |->
     CASE c = "ml" -> "Malayalam"
       [] c = "mr" -> "Marathi"
       [] c = "hi" -> "Hindi"
       [] c = "en" -> "English"]

\* the lookup written SUPPORTED_LANGUAGES[code]: an unknown code raises
LangName_keyerror(code) ==
  IF code \in DOMAIN SUPPORTED_LANGUAGES
    THEN SUPPORTED_LANGUAGES[code] ELSE "KeyError"

\* SUPPORTED_LANGUAGES.get(code, code)
LangName(code) ==
  IF code \in DOMAIN SUPPORTED_LANGUAGES THEN SUPPORTED_LANGUAGES[code] ELSE code

-----------------------------------------------------------------------------
(* Outcomes of a generate_content call: the call raises, reading           *)
(* response.text raises, or response.text is a text.                       *)

GenOutcomes ==
  {[kind |-> "raise"], [kind |-> "bad_text"]}
    \cup {[kind |-> "text", text |-> t] : t \in Texts}

GenRaises(o) == o.kind /= "text"

-----------------------------------------------------------------------------
(* utils/translation_utils.py *)

TranslationError ==
  <<"T","r","a","n","s","l","a","t","i","o","n"," ","E","r","r","o","r">>

TranslatePrompt(text, src_lang_name, dest_lang_name) ==
  [svc |-> "translation_model.generate_content",
   src_name |-> src_lang_name, dest_name |-> dest_lang_name, text |-> text]

\* translate_text with the short-circuit removed
translate_text_noskip(text, src, dest, o) ==
  LET prompt == TranslatePrompt(text, LangName(src), LangName(dest))
  IN  IF GenRaises(o)
        THEN [ret |-> TranslationError, raised |-> FALSE, calls |-> <<prompt>>]
        ELSE [ret |-> Strip(o.text), raised |-> FALSE, calls |-> <<prompt>>]

\* translate_text without the except clause
translate_text_noexcept(text, src, dest, o) ==
  LET prompt == TranslatePrompt(text, LangName(src), LangName(dest))
  IN  IF src = dest
        THEN [ret |-> text, raised |-> FALSE, calls |-> <<>>]
        ELSE IF GenRaises(o)
          THEN [ret |-> None, raised |-> TRUE, calls |-> <<prompt>>]
          ELSE [ret |-> Strip(o.text), raised |-> FALSE, calls |-> <<prompt>>]

\* translate_text(text, src, dest); o is the outcome of the generative call,
\* consulted only when the call is issued
translate_text(text, src, dest, o) ==
  LET src_lang_name == LangName(src)
      dest_lang_name == LangName(dest)
      prompt == TranslatePrompt(text, src_lang_name, dest_lang_name)
  IN  IF src = dest
        THEN [ret |-> text, raised |-> FALSE, calls |-> <<>>]
        ELSE IF GenRaises(o)
          THEN [ret |-> TranslationError, raised |-> FALSE, calls |-> <<prompt>>]
          ELSE [ret |-> Strip(o.text), raised |-> FALSE, calls |-> <<prompt>>]

-----------------------------------------------------------------------------
(* utils/rag_utils.py *)

Sep == <<"\n", "-", "-", "-", "\n">>

RetrievalError ==
  <<"E","r","r","o","r",":"," ","C","o","u","l","d"," ","n","o","t"," ",
    "r","e","t","r","i","e","v","e"," ","r","e","l","e","v","a","n","t"," ",
    "c","o","n","t","e","x","t",".">>

ErrorMarker == <<"E","r","r","o","r">>

DocPool == {<<"a">>, <<"a", "a">>}
DocLists == SeqsUpTo(DocPool, MaxDocs)
QueryPool == {<<>>, <<"a">>}

\* an index holding n vectors
Index(n) == [ntotal |-> n]
Indexes == {Index(n) : n \in 0..MaxVectors}

\* sep.join(parts)
RECURSIVE Join(_, _)
Join(parts, sep) ==
  IF parts = <<>> THEN <<>>
  ELSE IF Len(parts) = 1 THEN parts[1]
  ELSE parts[1] \o sep \o Join(Tail(parts), sep)

\* seq[i] of a Python list: a negative i counts from the end
PyInRange(seq, i) == -Len(seq) <= i /\ i < Len(seq)
PyGetItem(seq, i) == IF i >= 0 THEN seq[i + 1] ELSE seq[Len(seq) + i + 1]

EmbedOutcomes == {"ok", "raise"}

\* embed_texts with one more attempt after a failed embed_content call
embed_texts_retry(texts, eo) ==
  [raised |-> (eo = "raise"),
   calls |-> IF eo = "raise"
               THEN <<[svc |-> "genai.embed_content", content |-> texts],
                      [svc |-> "genai.embed_content", content |-> texts]>>
               ELSE <<[svc |-> "genai.embed_content", content |-> texts]>>]

\* embed_texts(texts): one embed_content call; an exception is logged and
\* re-raised
embed_texts(texts, eo) ==
  [raised |-> (eo = "raise"),
   calls |-> <<[svc |-> "genai.embed_content", content |-> texts]>>]

\* index.search asked for one neighbour too many
SearchOutcomes_offbyone(index, k) ==
  LET kk == k + 1
      m == IF kk < index.ntotal THEN kk ELSE index.ntotal
  IN  {[kind |-> "raise"]} \cup
        {[kind |-> "ok", indices |-> s] :
           s \in {f \in [1..kk -> (-1)..(index.ntotal - 1)] :
                    /\ \A i \in 1..m : f[i] >= 0
                    /\ \A i \in (m + 1)..kk : f[i] = -1
                    /\ \A i, j \in 1..m : i /= j => f[i] /= f[j]}}

\* index.search(query_embedding, k) on a flat index: it raises, or reports
\* k labels, the positions of min(k, ntotal) distinct vectors followed by -1
\* for every neighbour that does not exist.  k = 0 is rejected by an
\* assertion or answered with no label, depending on the faiss release.
SearchOutcomes(index, k) ==
  LET m == IF k < index.ntotal THEN k ELSE index.ntotal
  IN  {[kind |-> "raise"]} \cup
      IF k < 0 THEN {}
      ELSE {[kind |-> "ok", indices |-> s] :
              s \in {f \in [1..k -> (-1)..(index.ntotal - 1)] :
                       /\ \A i \in 1..m : f[i] >= 0
                       /\ \A i \in (m + 1)..k : f[i] = -1
                       /\ \A i, j \in 1..m : i /= j => f[i] /= f[j]}}

RagError(calls) ==
  [ret |-> RetrievalError, raised |-> FALSE, calls |-> calls,
   relevant_pos |-> <<>>, relevant_docs |-> <<>>]

\* rag_retrieve without the except clause
rag_retrieve_noexcept(query, index, docs, k, eo, so) ==
  LET emb == embed_texts(<<query>>, eo)
      search == [svc |-> "index.search", k |-> k]
      kept == IF so.kind = "ok"
                THEN SelectSeq(so.indices, LAMBDA i : i < Len(docs))
                ELSE <<>>
      picked == [j \in 1..Len(kept) |-> PyGetItem(docs, kept[j])]
  IN  IF emb.raised
        THEN [RagError(emb.calls) EXCEPT !.raised = TRUE, !.ret = None]
      ELSE IF so.kind = "raise" \/ \E j \in 1..Len(kept) : ~PyInRange(docs, kept[j])
        THEN [RagError(emb.calls \o <<search>>) EXCEPT !.raised = TRUE, !.ret = None]
      ELSE [ret |-> Join(picked, Sep), raised |-> FALSE,
            calls |-> emb.calls \o <<search>>,
            relevant_pos |-> kept, relevant_docs |-> picked]

\* rag_retrieve(query, index, docs, k); eo and so are the outcomes of the
\* embedding call and of the index search.  relevant_pos lists the reported
\* positions that pass the filter `i < len(docs)`, relevant_docs is the
\* local of that name.
rag_retrieve(query, index, docs, k, eo, so) ==
  LET emb == embed_texts(<<query>>, eo)
      search == [svc |-> "index.search", k |-> k]
      kept == IF so.kind = "ok"
                THEN SelectSeq(so.indices, LAMBDA i : i < Len(docs))
                ELSE <<>>
      relevant_docs == [j \in 1..Len(kept) |-> PyGetItem(docs, kept[j])]
  IN  IF emb.raised
        THEN RagError(emb.calls)
      ELSE IF so.kind = "raise"
        THEN RagError(emb.calls \o <<search>>)
      ELSE IF \E j \in 1..Len(kept) : ~PyInRange(docs, kept[j])
        THEN RagError(emb.calls \o <<search>>)      \* IndexError
      ELSE [ret |-> Join(relevant_docs, Sep), raised |-> FALSE,
            calls |-> emb.calls \o <<search>>,
            relevant_pos |-> kept, relevant_docs |-> relevant_docs]

-----------------------------------------------------------------------------
(* utils/chatbot_utils.py: analyze_image_with_gemini *)

ImageFallback ==
  <<"C","o","u","l","d"," ","n","o","t"," ","a","n","a","l","y","z","e"," ",
    "t","h","e"," ","u","p","l","o","a","d","e","d"," ","i","m","a","g","e",".">>

\* bytes of an upload: empty, an image ("I" is the format's magic number),
\* or something PIL cannot identify
ImageBytes == {<<>>, <<"I">>, <<"x">>}

\* Image.open(io.BytesIO(image_bytes)) succeeds
ImageDecodes(image_bytes) == image_bytes /= <<>> /\ image_bytes[1] = "I"

ImagePrompt(image_bytes) ==
  [svc |-> "llm_model.generate_content", kind |-> "image", image |-> image_bytes]

\* analyze_image_with_gemini without the except clause
analyze_image_noexcept(image_bytes, o) ==
  IF ~ImageDecodes(image_bytes)
    THEN [ret |-> None, raised |-> TRUE, calls |-> <<>>]
  ELSE IF GenRaises(o)
    THEN [ret |-> None, raised |-> TRUE, calls |-> <<ImagePrompt(image_bytes)>>]
  ELSE [ret |-> Strip(o.text), raised |-> FALSE,
        calls |-> <<ImagePrompt(image_bytes)>>]

\* analyze_image_with_gemini(image_bytes); o is the outcome of the
\* multimodal call
analyze_image_with_gemini(image_bytes, o) ==
  IF ~ImageDecodes(image_bytes)
    THEN [ret |-> ImageFallback, raised |-> FALSE, calls |-> <<>>]
  ELSE IF GenRaises(o)
    THEN [ret |-> ImageFallback, raised |-> FALSE,
          calls |-> <<ImagePrompt(image_bytes)>>]
  ELSE [ret |-> Strip(o.text), raised |-> FALSE,
        calls |-> <<ImagePrompt(image_bytes)>>]

-----------------------------------------------------------------------------
(* SpecUtils: the three stage functions, each applied to arbitrary inputs   *)
(* and arbitrary outcomes of the external calls it makes.                   *)

\* no response produced yet
NoResponse == [status |-> 0]

\* None where a dict or a list is expected, and the empty dict
NoneObj == [py |-> "None"]
EmptyDict == [py |-> "dict"]

\* main.app_state = {}: keys holds the keys that are set
AppStateEmpty ==
  [keys |-> {}, speech_client |-> NoneObj, faiss_index |-> NoneObj, docs |-> <<>>]

NoInv == [fn |-> "none", args |-> <<>>, out |-> <<>>]
Idle == [stage |-> "idle"]

MaxDay == 2

\* calendar days: the day date.today() or datetime.now(timezone.utc) falls on
Days == 1..MaxDay

\* date.isoformat()
IsoDate(day) == [py |-> "str", iso_day |-> day]

\* the notes handed to test.py generate_structured_log: they state a date
\* or they do not
NotesPool ==
  {[py |-> "str", states_date |-> FALSE],
   [py |-> "str", states_date |-> TRUE, stated |-> IsoDate(1)]}

\* texts the structured call can put in `details` when it answers a string
DetailsTexts ==
  {"{\"k\": \"v\"}", "{'k': 'v'}", "\"x\"", "[\"x\"]", "5", "null", ""}

\* json.loads(text)
JsonLoads(text) ==
  CASE text = "{\"k\": \"v\"}" ->
         [raised |-> FALSE, val |-> [py |-> "dict", k |-> "v"]]
    [] text = "\"x\"" -> [raised |-> FALSE, val |-> [py |-> "str", s |-> "x"]]
    [] text = "[\"x\"]" ->
         [raised |-> FALSE, val |-> [py |-> "list", items |-> <<"x">>]]
    [] text = "5" -> [raised |-> FALSE, val |-> [py |-> "int", n |-> 5]]
    [] text = "null" -> [raised |-> FALSE, val |-> NoneObj]
    [] OTHER -> [raised |-> TRUE, val |-> NoneObj]

\* a value of the field details: Union[Dict[str, str], str]
DetailsPool ==
  {EmptyDict, [py |-> "dict", k |-> "v"]}
    \cup {[py |-> "str", s |-> t] : t \in DetailsTexts}

\* structured_log_parser.invoke(prompt): it raises (call or validation
\* failure) or answers a StructuredLog with any date and any details
StructuredOutcomes ==
  {[kind |-> "raise"]}
    \cup {[kind |-> "report", date |-> IsoDate(d), details |-> x] :
            d \in Days, x \in DetailsPool}

\* test.py generate_structured_log(log_notes, profile); today is the day of
\* datetime.date.today(), o the outcome of the structured call
test_generate_structured_log(log_notes, today, o) ==
  LET prompt == [svc |-> "structured_log_parser.invoke",
                 log_notes |-> log_notes, today_date |-> IsoDate(today)]
      parsed == JsonLoads(o.details.s)
      result == [py |-> "dict", log_type |-> "activity", date |-> o.date,
                 summary |-> "summary", details |-> o.details]
  IN  IF o.kind = "raise"
        THEN [ret |-> EmptyDict, raised |-> FALSE, calls |-> <<prompt>>]
      ELSE IF o.details.py /= "str"
        THEN [ret |-> result, raised |-> FALSE, calls |-> <<prompt>>]
      ELSE IF parsed.raised
        THEN [ret |-> EmptyDict, raised |-> FALSE, calls |-> <<prompt>>]
      ELSE [ret |-> [result EXCEPT !.details = parsed.val],
            raised |-> FALSE, calls |-> <<prompt>>]

InitUtils ==
  /\ inv = NoInv
  /\ pc = "utils"
  /\ app_state = AppStateEmpty
  /\ chat = Idle
  /\ pcq = Idle
  /\ events = <<>>
  /\ http = NoResponse

CallTranslate ==
  /\ inv = NoInv
  /\ \E text \in Texts, src \in Langs, dest \in Langs, o \in GenOutcomes :
       inv' = [fn |-> "translate_text",
               args |-> [text |-> text, src |-> src, dest |-> dest, o |-> o],
               out |-> translate_text(text, src, dest, o)]

CallRag ==
  /\ inv = NoInv
  /\ \E query \in QueryPool, index \in Indexes, docs \in DocLists,
        k \in 0..MaxK, eo \in EmbedOutcomes :
       \E so \in SearchOutcomes(index, k) :
         inv' = [fn |-> "rag_retrieve",
                 args |-> [query |-> query, index |-> index, docs |-> docs,
                           k |-> k, eo |-> eo, so |-> so],
                 out |-> rag_retrieve(query, index, docs, k, eo, so)]

CallStructuredLog ==
  /\ inv = NoInv
  /\ \E log_notes \in NotesPool, today \in Days, o \in StructuredOutcomes :
       inv' = [fn |-> "generate_structured_log",
               args |-> [log_notes |-> log_notes, today |-> today, o |-> o],
               out |-> test_generate_structured_log(log_notes, today, o)]

CallAnalyze ==
  /\ inv = NoInv
  /\ \E image_bytes \in ImageBytes, o \in GenOutcomes :
       inv' = [fn |-> "analyze_image_with_gemini",
               args |-> [image_bytes |-> image_bytes, o |-> o],
               out |-> analyze_image_with_gemini(image_bytes, o)]

\* one invocation per behaviour: the functions keep no state between calls
NextUtils ==
  \/ CallTranslate /\ UNCHANGED <<pc, app_state, chat, pcq, events, http>>
  \/ CallRag /\ UNCHANGED <<pc, app_state, chat, pcq, events, http>>
  \/ CallAnalyze /\ UNCHANGED <<pc, app_state, chat, pcq, events, http>>
  \/ CallStructuredLog /\ UNCHANGED <<pc, app_state, chat, pcq, events, http>>

SpecUtils == InitUtils /\ [][NextUtils]_vars

IsTranslate == inv.fn = "translate_text"
IsRag == inv.fn = "rag_retrieve"
IsAnalyze == inv.fn = "analyze_image_with_gemini"

\* C1: translate_text(text, src=L, dest=L) returns text unchanged and issues
\* no call to the translation model, for every text and language code L.
C1_SameLanguageIdentity ==
  (IsTranslate /\ inv.args.src = inv.args.dest) =>
    /\ ~inv.out.raised
    /\ inv.out.ret = inv.args.text
    /\ inv.out.calls = <<>>

\* a text that strip() would change is translated to its own language
C1_Witness ==
  /\ IsTranslate
  /\ inv.args.src = inv.args.dest
  /\ inv.args.src = "hi"
  /\ Strip(inv.args.text) /= inv.args.text

\* C2: for src /= dest translate_text issues exactly one generative call; if
\* the call or reading its result raises, nothing propagates and the return
\* value is "Translation Error".
C2_OneCallAndSentinel ==
  (IsTranslate /\ inv.args.src /= inv.args.dest) =>
    /\ Len(inv.out.calls) = 1
    /\ inv.out.calls[1].svc = "translation_model.generate_content"
    /\ ~inv.out.raised
    /\ GenRaises(inv.args.o) => inv.out.ret = TranslationError

\* reading response.text raised during a translation from Hindi to English
C2_Witness ==
  /\ IsTranslate
  /\ inv.args.src = "hi" /\ inv.args.dest = "en"
  /\ inv.args.o.kind = "bad_text"
  /\ inv.out.ret = TranslationError

\* C3: the context returned by rag_retrieve is built from at most k
\* documents, for every k, index and document list.
C3_AtMostKDocuments ==
  IsRag =>
    /\ Len(inv.out.relevant_docs) <= inv.args.k
    /\ inv.out.ret \in {Join(inv.out.relevant_docs, Sep), RetrievalError}

\* k documents are retrieved although more documents and vectors exist
C3_Witness ==
  /\ IsRag
  /\ inv.args.k = 2
  /\ Len(inv.out.relevant_docs) = 2
  /\ Len(inv.args.docs) > 2
  /\ inv.args.index.ntotal > 2
  /\ inv.out.ret = Join(inv.out.relevant_docs, Sep)

\* C4: when index and document list disagree in size, rag_retrieve does not
\* raise and every document it returns is docs[p] for a reported position p
\* with 0 <= p < len(docs); a reported position outside that range
\* contributes no document.
C4_OnlyValidPositions ==
  IsRag =>
    /\ ~inv.out.raised
    /\ \A j \in 1..Len(inv.out.relevant_pos) :
         /\ 0 <= inv.out.relevant_pos[j]
         /\ inv.out.relevant_pos[j] < Len(inv.args.docs)

\* C5: if the embedding call or the index search raises, rag_retrieve does
\* not propagate it and returns "Error: Could not retrieve relevant
\* context.", which contains the marker "Error"; embed_texts re-raises.
C5_RetrievalErrorString ==
  /\ (IsRag /\ (inv.args.eo = "raise" \/ inv.args.so.kind = "raise")) =>
       /\ ~inv.out.raised
       /\ inv.out.ret = RetrievalError
       /\ HasSub(inv.out.ret, ErrorMarker)
  /\ (IsRag /\ inv.args.eo = "raise") =>
       /\ embed_texts(<<inv.args.query>>, inv.args.eo).raised
       /\ Len(inv.out.calls) = 1

\* the embedding succeeds and the search raises
C5_Witness ==
  /\ IsRag
  /\ inv.args.eo = "ok"
  /\ inv.args.so.kind = "raise"
  /\ inv.out.ret = RetrievalError
  /\ Len(inv.out.calls) = 2

\* C6: if decoding the image bytes or the multimodal call raises,
\* analyze_image_with_gemini returns "Could not analyze the uploaded image."
\* and never propagates the exception.
C6_ImageFallback ==
  IsAnalyze =>
    /\ ~inv.out.raised
    /\ (~ImageDecodes(inv.args.image_bytes) \/ GenRaises(inv.args.o)) =>
         inv.out.ret = ImageFallback

\* a decodable image whose multimodal call raises
C6_Witness ==
  /\ IsAnalyze
  /\ ImageDecodes(inv.args.image_bytes)
  /\ inv.args.o.kind = "raise"
  /\ inv.out.ret = ImageFallback
  /\ Len(inv.out.calls) = 1

-----------------------------------------------------------------------------
(* utils/chatbot_utils.py: process_chat_query, one step per stage *)

DefaultK == 3

NoImageMarker ==
  <<"N","o"," ","i","m","a","g","e"," ","p","r","o","v","i","d","e","d",".">>

\* events: a stage function is entered, it returns, an external call is made
Call(fn, args) == [ev |-> "call", fn |-> fn, data |-> args]
Ret(fn, val) == [ev |-> "return", fn |-> fn, data |-> val]
Ext(c) == [ev |-> "ext", fn |-> c.svc, data |-> c]

\* the events of one call of a stage function with result r
StageEvents(fn, args, r) ==
  <<Call(fn, args)>> \o [i \in 1..Len(r.calls) |-> Ext(r.calls[i])]
    \o <<Ret(fn, r.ret)>>

\* answers of the generative model drawn in the request-level specifications:
\* empty, plain, and one that strip() changes
AnswerPool == {<<>>, <<"a">>, <<"a", " ">>}
StageGenOutcomes ==
  {[kind |-> "raise"]} \cup {[kind |-> "text", text |-> t] : t \in AnswerPool}

SynthesisPrompt(f) ==
  [svc |-> "llm_model.generate_content", kind |-> "synthesis",
   native_language_name |-> f.native_language_name,
   profile |-> f.profile, predictions |-> f.predictions,
   image_analysis |-> f.image_analysis, rag_context |-> f.rag_context,
   eng_query |-> f.eng_query,
   \* lines 50-51: the closing paragraph, which names the question again
   closing |-> <<f.eng_query>>]

\* the frame of process_chat_query on entry
PcqFrame(query, profile, predictions, faiss_index, docs, language, image_bytes) ==
  [query |-> query, profile |-> profile, predictions |-> predictions,
   faiss_index |-> faiss_index, docs |-> docs, language |-> language,
   image_bytes |-> image_bytes,
   eng_query |-> None, native_language_name |-> None, image_analysis |-> None,
   rag_context |-> None, response |-> None]

\* the image test written `if image_bytes is not None`
PcqNext_isnotnone(loc, image_bytes) ==
  CASE loc = "pcq_translate" ->
         IF image_bytes /= None THEN "pcq_image" ELSE "pcq_retrieve"
    [] loc = "pcq_image" -> "pcq_retrieve"
    [] loc = "pcq_retrieve" -> "pcq_synthesize"

\* retrieval moved ahead of the image analysis
PcqNext_reordered(loc, image_bytes) ==
  CASE loc = "pcq_translate" -> "pcq_retrieve"
    [] loc = "pcq_retrieve" ->
         IF Truthy(image_bytes) THEN "pcq_image" ELSE "pcq_synthesize"
    [] loc = "pcq_image" -> "pcq_synthesize"

\* the statement that follows the stage at loc
PcqNext(loc, image_bytes) ==
  CASE loc = "pcq_translate" ->
         IF Truthy(image_bytes) THEN "pcq_image" ELSE "pcq_retrieve"
    [] loc = "pcq_image" -> "pcq_retrieve"
    [] loc = "pcq_retrieve" -> "pcq_synthesize"

\* lines 29-33: translate the query, look the language name up, preset the
\* image slot
PcqTranslate ==
  /\ pc = "pcq_translate"
  /\ \E o \in StageGenOutcomes :
       LET r == translate_text(pcq.query, pcq.language, "en", o)
       IN  /\ pcq' = [pcq EXCEPT !.eng_query = r.ret,
                                 !.native_language_name = LangName(pcq.language),
                                 !.image_analysis = NoImageMarker]
           /\ events' = events \o
                StageEvents("translate_text", <<pcq.query, pcq.language, "en">>, r)
  /\ pc' = PcqNext("pcq_translate", pcq.image_bytes)
  /\ UNCHANGED <<inv, app_state, chat, http>>

\* lines 34-36
PcqImage ==
  /\ pc = "pcq_image"
  /\ \E o \in StageGenOutcomes :
       LET r == analyze_image_with_gemini(pcq.image_bytes, o)
       IN  /\ pcq' = [pcq EXCEPT !.image_analysis = r.ret]
           /\ events' = events \o
                StageEvents("analyze_image_with_gemini", <<pcq.image_bytes>>, r)
  /\ pc' = PcqNext("pcq_image", pcq.image_bytes)
  /\ UNCHANGED <<inv, app_state, chat, http>>

\* line 37
PcqRetrieve ==
  /\ pc = "pcq_retrieve"
  /\ \E eo \in EmbedOutcomes, so \in SearchOutcomes(pcq.faiss_index, DefaultK) :
       LET r == rag_retrieve(pcq.eng_query, pcq.faiss_index, pcq.docs,
                             DefaultK, eo, so)
       IN  /\ pcq' = [pcq EXCEPT !.rag_context = r.ret]
           /\ events' = events \o
                StageEvents("rag_retrieve", <<pcq.eng_query, DefaultK>>, r)
  /\ pc' = PcqNext("pcq_retrieve", pcq.image_bytes)
  /\ UNCHANGED <<inv, app_state, chat, http>>

\* lines 39-56: build the prompt, one generative call, return response.text;
\* an exception of the call propagates to the caller
PcqSynthesize ==
  /\ pc = "pcq_synthesize"
  /\ events' = events \o <<Ext(SynthesisPrompt(pcq))>>
  /\ \E o \in StageGenOutcomes :
       IF GenRaises(o)
         THEN /\ pc' = "pcq_raised"
              /\ pcq' = pcq
         ELSE /\ pc' = "pcq_returned"
              /\ pcq' = [pcq EXCEPT !.response = o.text]
  /\ UNCHANGED <<inv, app_state, chat, http>>

PipeLangs == Langs
PipeIndexes == {Index(0), Index(1), Index(MaxVectors)}
PipeDocLists == {<<>>, <<<<"a">>>>, <<<<"a">>, <<"a", "a">>>>}
PipeImages == {None} \cup ImageBytes

InitPipeline ==
  /\ inv = NoInv
  /\ app_state = AppStateEmpty
  /\ chat = Idle
  /\ events = <<>>
  /\ http = NoResponse
  /\ pc = "pcq_translate"
  /\ \E query \in QueryPool, language \in PipeLangs, image_bytes \in PipeImages,
        faiss_index \in PipeIndexes, docs \in PipeDocLists :
       pcq = PcqFrame(query, "profile", "predictions", faiss_index, docs,
                      language, image_bytes)

NextPipeline == PcqTranslate \/ PcqImage \/ PcqRetrieve \/ PcqSynthesize

SpecPipeline == InitPipeline /\ [][NextPipeline]_vars

\* process_chat_query has passed its image test and its retrieval
PcqPastRetrieval == pc \in {"pcq_synthesize", "pcq_returned", "pcq_raised"}
PcqFinished == pc \in {"pcq_returned", "pcq_raised"}

IsSynthesisCall(e) ==
  /\ e.ev = "ext"
  /\ e.fn = "llm_model.generate_content"
  /\ e.data.kind = "synthesis"

IsMultimodalCall(e) ==
  /\ e.ev = "ext"
  /\ e.fn = "llm_model.generate_content"
  /\ e.data.kind = "image"

IsCallOf(e, fn) == e.ev = "call" /\ e.fn = fn

Count(P(_)) == Len(SelectSeq(events, P))

AnalysisCalls == Count(LAMBDA e : IsCallOf(e, "analyze_image_with_gemini"))
MultimodalCalls == Count(IsMultimodalCall)

\* the image-analysis slot of every synthesis prompt issued so far
SlotIsMarker ==
  \A i \in 1..Len(events) :
    IsSynthesisCall(events[i]) => events[i].data.image_analysis = NoImageMarker

\* C7 (as claimed): image analysis is called if and only if an image was
\* supplied (image_bytes is not None); with no image the prompt's
\* image-analysis slot is "No image provided." and no multimodal call is made.
C7_AnalysisIffSupplied ==
  PcqPastRetrieval =>
    /\ AnalysisCalls = (IF pcq.image_bytes /= None THEN 1 ELSE 0)
    /\ pcq.image_bytes = None =>
         /\ pcq.image_analysis = NoImageMarker
         /\ SlotIsMarker
         /\ MultimodalCalls = 0

\* C7 (amended): image analysis is called if and only if image_bytes is
\* supplied and non-empty; when image_bytes is None or empty the prompt's
\* image-analysis slot is "No image provided." and no multimodal call is made.
C7_AnalysisIffNonEmpty ==
  PcqPastRetrieval =>
    /\ AnalysisCalls = (IF Truthy(pcq.image_bytes) THEN 1 ELSE 0)
    /\ MultimodalCalls <= AnalysisCalls
    /\ ~Truthy(pcq.image_bytes) =>
         /\ pcq.image_analysis = NoImageMarker
         /\ SlotIsMarker
         /\ MultimodalCalls = 0

\* an empty upload was passed in and the answer was synthesized without any
\* image analysis
C7_Witness ==
  /\ pc = "pcq_returned"
  /\ pcq.image_bytes = <<>>
  /\ AnalysisCalls = 0
  /\ Count(IsSynthesisCall) = 1
  /\ SlotIsMarker

\* stage boundaries and the synthesis call, in the order they happened
StageTrace ==
  LET kept == SelectSeq(events,
                LAMBDA e : e.ev \in {"call", "return"} \/ IsSynthesisCall(e))
  IN  [i \in 1..Len(kept) |-> <<kept[i].ev, kept[i].fn>>]

ExpectedTrace(with_image) ==
  <<<<"call", "translate_text">>, <<"return", "translate_text">>>>
    \o (IF with_image
          THEN <<<<"call", "analyze_image_with_gemini">>,
                 <<"return", "analyze_image_with_gemini">>>>
          ELSE <<>>)
    \o <<<<"call", "rag_retrieve">>, <<"return", "rag_retrieve">>,
         <<"ext", "llm_model.generate_content">>>>

IsPrefix(s, t) == Len(s) <= Len(t) /\ SubSeq(t, 1, Len(s)) = s

\* C8: one run of process_chat_query executes query translation, image
\* analysis (if any), retrieval, synthesis in this order; no stage starts
\* before the previous one returned, and the single synthesis call is issued
\* only after the other stages have returned.
C8_StageOrder ==
  /\ \E with_image \in BOOLEAN : IsPrefix(StageTrace, ExpectedTrace(with_image))
  /\ PcqFinished => \E with_image \in BOOLEAN : StageTrace = ExpectedTrace(with_image)

\* a Hindi query with an image ran through all four stages
C8_Witness ==
  /\ pc = "pcq_returned"
  /\ pcq.language = "hi"
  /\ StageTrace = ExpectedTrace(TRUE)
  /\ MultimodalCalls = 1

-----------------------------------------------------------------------------
(* utils/rag_utils.py: load_faiss_index, and SpecRag: the documents file is *)
(* loaded and one retrieval runs on what was loaded.                        *)

\* the position of the leftmost occurrence of sep in s at or after i, or 0
RECURSIVE Find(_, _, _)
Find(s, sep, i) ==
  IF i + Len(sep) - 1 > Len(s) THEN 0
  ELSE IF SubSeq(s, i, i + Len(sep) - 1) = sep THEN i
  ELSE Find(s, sep, i + 1)

\* s.split(sep) cut at every second occurrence only
RECURSIVE Split_skipping(_, _)
Split_skipping(s, sep) ==
  LET i == Find(s, sep, 1)
      j == IF i = 0 THEN 0 ELSE Find(s, sep, i + Len(sep))
  IN  IF j = 0 THEN <<s>>
      ELSE <<SubSeq(s, 1, j - 1)>> \o
             Split_skipping(SubSeq(s, j + Len(sep), Len(s)), sep)

\* s.split(sep): the pieces between the non-overlapping occurrences of sep,
\* scanned from the left; never an empty list
RECURSIVE Split(_, _)
Split(s, sep) ==
  LET i == Find(s, sep, 1)
  IN  IF i = 0 THEN <<s>>
      ELSE <<SubSeq(s, 1, i - 1)>> \o Split(SubSeq(s, i + Len(sep), Len(s)), sep)

\* an index file that faiss.read_index cannot read
Corrupt == [py |-> "corrupt"]

\* load_faiss_index that tests only the index file for existence and does
\* not catch the failure to open the documents file
load_faiss_index_indexonly(index_file, docs_file) ==
  IF index_file = NoneObj \/ index_file = Corrupt
    THEN [index |-> NoneObj, docs |-> <<>>]
  ELSE IF docs_file = None
    THEN [index |-> index_file, docs |-> <<>>]
  ELSE [index |-> index_file, docs |-> Split(docs_file, Sep)]

\* load_faiss_index(index_path, docs_path): index_file is None when the file
\* does not exist, else Corrupt or the stored index; docs_file is None when
\* the file does not exist, else its text
load_faiss_index(index_file, docs_file) ==
  IF index_file = NoneObj \/ docs_file = None
    THEN [index |-> NoneObj, docs |-> <<>>]
  ELSE IF index_file = Corrupt
    THEN [index |-> NoneObj, docs |-> <<>>]
  ELSE [index |-> index_file, docs |-> Split(docs_file, Sep)]

MaxPieces == 4

\* a documents file is a concatenation of pieces: a letter, the separator,
\* or the separator without its final newline
FilePieces == {<<"a">>, Sep, <<"\n", "-", "-", "-">>}

RECURSIVE Concat(_)
Concat(parts) == IF parts = <<>> THEN <<>> ELSE parts[1] \o Concat(Tail(parts))

DocsFiles == {None} \cup {Concat(ps) : ps \in SeqsUpTo(FilePieces, MaxPieces)}
IndexFiles == {NoneObj, Corrupt} \cup Indexes

InitRag ==
  /\ pc = "rag_load"
  /\ \E index_file \in IndexFiles, docs_file \in DocsFiles :
       inv = [fn |-> "load_faiss_index", index_file |-> index_file,
              docs_file |-> docs_file]
  /\ app_state = AppStateEmpty
  /\ chat = Idle
  /\ pcq = Idle
  /\ events = <<>>
  /\ http = NoResponse

\* main.py lines 47-52 with the files given
RagLoad ==
  /\ pc = "rag_load"
  /\ LET ld == load_faiss_index(inv.index_file, inv.docs_file)
     IN  /\ app_state' =
               [AppStateEmpty EXCEPT
                  !.keys = IF ld.index = NoneObj THEN {} ELSE {"faiss_index", "docs"},
                  !.faiss_index = ld.index, !.docs = ld.docs]
         /\ pc' = IF ld.index = NoneObj THEN "rag_unavailable" ELSE "rag_ready"
  /\ UNCHANGED <<inv, chat, pcq, events, http>>

\* one rag_retrieve on the loaded index and documents
RagRetrieve ==
  /\ pc = "rag_ready"
  /\ \E k \in 0..MaxK, eo \in EmbedOutcomes :
       \E so \in SearchOutcomes(app_state.faiss_index, k) :
         inv' = [fn |-> "rag_retrieve",
                 args |-> [k |-> k, eo |-> eo, so |-> so],
                 out |-> rag_retrieve(<<"a">>, app_state.faiss_index,
                                      app_state.docs, k, eo, so)]
  /\ pc' = "rag_done"
  /\ UNCHANGED <<app_state, chat, pcq, events, http>>

NextRag == RagLoad \/ RagRetrieve

SpecRag == InitRag /\ [][NextRag]_vars

-----------------------------------------------------------------------------
(* crud.py: get_user_profile *)

\* crud._make_api_request passes timeout=15 to requests.get and requests.post
RequestTimeout == 15

\* a farm document: with or without the preferredLanguage key, or empty
ProfilePool ==
  {[py |-> "dict", village |-> "v", preferredLanguage |-> "hi"],
   [py |-> "dict", village |-> "v", preferredLanguage |-> "en"],
   [py |-> "dict", village |-> "v"],
   EmptyDict}

\* what _make_api_request('GET', .../farms/) returns: None on a failed
\* request, else the decoded JSON body
FarmsAnswers ==
  {NoneObj, [py |-> "dict", detail |-> "x"], [py |-> "list", items |-> <<>>]}
    \cup {[py |-> "list", items |-> <<p>>] : p \in ProfilePool}

\* bool(d) of a dict or None
DictTruthy(d) == d /= NoneObj /\ d /= EmptyDict

\* d.get(key, default)
DictGet(d, key, default) == IF key \in DOMAIN d THEN d[key] ELSE default

\* get_user_profile that falls back to a stock farm when none is found
get_user_profile_default(farms) ==
  IF farms.py = "list" /\ Len(farms.items) > 0
    THEN farms.items[1] ELSE [py |-> "dict", village |-> "v"]

get_user_profile(farms) ==
  IF farms.py = "list" /\ Len(farms.items) > 0 THEN farms.items[1] ELSE NoneObj

-----------------------------------------------------------------------------
(* main.py: lifespan, transcribe_audio_with_google, chat_with_assistant *)

\* the files found at startup
StartupIndexFiles == {NoneObj, Corrupt, Index(1), Index(2)}
StartupDocsFiles == {None, <<"a">>, <<"a">> \o Sep \o <<"a", "a">>}

\* load_faiss_index returns (None, None) or the index read from disk together
\* with the documents file split on the separator (never an empty list)
LoadOutcomes ==
  {load_faiss_index(i, d) : i \in StartupIndexFiles, d \in StartupDocsFiles}

\* lifespan, up to the yield
Startup ==
  /\ pc = "startup"
  /\ \E speech_ok \in BOOLEAN, ld \in LoadOutcomes :
       app_state' =
         [keys |-> (IF speech_ok THEN {"speech_client"} ELSE {})
                     \cup (IF ld.index = NoneObj THEN {} ELSE {"faiss_index", "docs"}),
          speech_client |-> IF speech_ok THEN [py |-> "SpeechClient"] ELSE NoneObj,
          faiss_index |-> ld.index,
          docs |-> ld.docs]
  /\ pc' = "serving"
  /\ UNCHANGED <<inv, chat, pcq, events, http>>

\* lifespan, after the yield: app_state.clear(); the process ends and the
\* frames of the handled request are gone
Shutdown ==
  /\ pc \in {"serving", "done"}
  /\ app_state' = AppStateEmpty
  /\ pc' = "stopped"
  /\ chat' = Idle
  /\ pcq' = Idle
  /\ events' = <<>>
  /\ http' = NoResponse
  /\ inv' = NoInv

ChatLangs == {"en", "hi"}
TextQueries == {None, <<>>, <<"a">>}
ImageUploads == {None, <<>>, <<"I">>}
AudioUploads == {None, <<>>, <<"A">>}
TranscriptPool == {<<"a">>}

\* AudioSegment.from_file(io.BytesIO(audio_bytes)) succeeds
AudioDecodes(audio_bytes) == audio_bytes /= <<>> /\ audio_bytes[1] = "A"

SpeechOutcomes ==
  {[kind |-> "raise"], [kind |-> "no_results"]}
    \cup {[kind |-> "results", transcript |-> t] : t \in TranscriptPool}

\* transcribe_audio_with_google without the test of the client: the missing
\* client fails inside the try block
transcribe_audio_with_google_nocheck(state, audio_bytes, language_code, so) ==
  LET recognize == [svc |-> "speech_client.recognize",
                    language_code |-> language_code]
  IN  IF "speech_client" \notin state.keys \/ ~AudioDecodes(audio_bytes)
        THEN [status |-> 500, ret |-> None, calls |-> <<>>]
      ELSE IF so.kind = "raise"
        THEN [status |-> 500, ret |-> None, calls |-> <<recognize>>]
      ELSE IF so.kind = "no_results"
        THEN [status |-> 0, ret |-> <<>>, calls |-> <<recognize>>]
      ELSE [status |-> 0, ret |-> so.transcript, calls |-> <<recognize>>]

\* transcribe_audio_with_google(audio_bytes, language_code); status is the
\* status code of the HTTPException raised, 0 if none
transcribe_audio_with_google(state, audio_bytes, language_code, so) ==
  LET recognize == [svc |-> "speech_client.recognize",
                    language_code |-> language_code]
  IN  IF "speech_client" \notin state.keys
        THEN [status |-> 503, ret |-> None, calls |-> <<>>]
      ELSE IF ~AudioDecodes(audio_bytes)
        THEN [status |-> 500, ret |-> None, calls |-> <<>>]
      ELSE IF so.kind = "raise"
        THEN [status |-> 500, ret |-> None, calls |-> <<recognize>>]
      ELSE IF so.kind = "no_results"
        THEN [status |-> 0, ret |-> <<>>, calls |-> <<recognize>>]
      ELSE [status |-> 0, ret |-> so.transcript, calls |-> <<recognize>>]

HTTPException(status_code, detail) == [status |-> status_code, detail |-> detail]

\* a request arrives: text_lang is the language the typed text is written in
ChatReceive ==
  /\ pc = "serving"
  /\ \E text_query \in TextQueries, text_lang \in ChatLangs,
        language_code \in ChatLangs, image_file \in ImageUploads,
        audio_file \in AudioUploads :
       chat' = [stage |-> "chat", text_query |-> text_query,
                text_lang |-> text_lang, language_code |-> language_code,
                image_file |-> image_file, audio_file |-> audio_file,
                farms |-> NoneObj, profile |-> NoneObj, user_query |-> None,
                transcribed_text |-> None, source_language |-> None,
                image_bytes |-> None, predictions |-> NoneObj]
  /\ pc' = "chat_profile"
  /\ UNCHANGED <<inv, app_state, pcq, events, http>>

\* lines 164-170
ChatGetProfile ==
  /\ pc = "chat_profile"
  /\ \E farms \in FarmsAnswers :
       LET profile == get_user_profile(farms)
       IN  /\ events' = events \o <<Ext([svc |-> "crud.get_user_profile", method |-> "GET",
                                      timeout |-> RequestTimeout])>>
           /\ IF ~DictTruthy(profile)
                THEN /\ http' = HTTPException(404, "User profile not found.")
                     /\ pc' = "done"
                     /\ chat' = [chat EXCEPT !.farms = farms,
                                             !.profile = profile]
                ELSE /\ chat' = [chat EXCEPT
                           !.farms = farms,
                           !.profile = profile,
                           !.user_query = chat.text_query,
                           !.transcribed_text = None,
                           !.source_language =
                              DictGet(profile, "preferredLanguage", "en")]
                     /\ pc' = IF chat.audio_file /= None
                                THEN "chat_transcribe" ELSE "chat_check_query"
                     /\ http' = http
  /\ UNCHANGED <<inv, app_state, pcq>>

\* lines 173-174
ChatTranscribe ==
  /\ pc = "chat_transcribe"
  /\ \E so \in SpeechOutcomes :
       LET r == transcribe_audio_with_google(app_state, chat.audio_file,
                                             chat.source_language, so)
       IN  /\ events' = events \o
                [i \in 1..Len(r.calls) |-> Ext(r.calls[i])]
           /\ IF r.status /= 0
                THEN /\ http' = HTTPException(r.status, "transcription")
                     /\ pc' = "done"
                     /\ chat' = chat
                ELSE /\ chat' = [chat EXCEPT !.transcribed_text = r.ret]
                     /\ pc' = "chat_translate_audio"
                     /\ http' = http
  /\ UNCHANGED <<inv, app_state, pcq>>

\* line 176
ChatTranslateAudio ==
  /\ pc = "chat_translate_audio"
  /\ \E o \in StageGenOutcomes :
       LET r == translate_text(chat.transcribed_text, chat.source_language,
                               "en", o)
       IN  /\ chat' = [chat EXCEPT !.user_query = r.ret]
           /\ events' = events \o
                StageEvents("translate_text",
                  <<chat.transcribed_text, chat.source_language, "en">>, r)
  /\ pc' = "chat_check_query"
  /\ UNCHANGED <<inv, app_state, pcq, http>>

\* lines 178-180
ChatCheckQuery ==
  /\ pc = "chat_check_query"
  /\ IF ~Truthy(chat.user_query)
       THEN /\ http' = HTTPException(400, "No query provided.")
            /\ pc' = "done"
            /\ chat' = chat
       ELSE /\ chat' = [chat EXCEPT !.image_bytes = chat.image_file]
            /\ pc' = "chat_context"
            /\ http' = http
  /\ UNCHANGED <<inv, app_state, pcq, events>>

\* utils/api_utils.fetch_weather(village): a dict, with the key "error" when
\* the weather could not be fetched
WeatherOutcomes ==
  {[py |-> "dict", temperature |-> "t"], [py |-> "dict", error |-> "e"]}

PredictionOutcomes == {"report", "raise"}

PyList(items) == [py |-> "list", items |-> items]

\* utils/ml_utils.get_dashboard_predictions(profile, weather): the report of
\* the structured call, or, when the call raises or answers nothing usable,
\* the default dictionary of lines 57-65, whose crop name and applied schemes
\* are read from the profile
get_dashboard_predictions(profile, weather, po) ==
  LET prompt == [svc |-> "structured_llm.invoke", weather |-> weather]
      report == [py |-> "dict", recommended_crop |-> "report",
                 price_crop_name |-> [py |-> "str", s |-> "c"],
                 applied_schemes |-> PyList(<<>>)]
      default ==
        [py |-> "dict", recommended_crop |-> "Rice",
         price_crop_name |->
           DictGet(profile, "primary_crop", [py |-> "str", s |-> "N/A"]),
         applied_schemes |->
           DictGet(profile, "participation_in_govt_schemes", PyList(<<>>))]
  IN  [ret |-> IF po = "report" THEN report ELSE default,
       raised |-> FALSE, calls |-> <<prompt>>]

\* schemas.DashboardPredictions(**d) succeeds: the crop name of the price
\* range is a str and the applied schemes are a list of str
DashboardPredictionsValidates(d) ==
  /\ d.price_crop_name.py = "str"
  /\ d.applied_schemes.py = "list"
  /\ \A i \in 1..Len(d.applied_schemes.items) :
       d.applied_schemes.items[i].py = "str"

\* lines 181-182
ChatContext ==
  /\ pc = "chat_context"
  /\ \E weather_data \in WeatherOutcomes, po \in PredictionOutcomes :
       LET r == get_dashboard_predictions(chat.profile, weather_data, po)
       IN  /\ chat' = [chat EXCEPT !.predictions = r.ret]
           /\ events' = events \o <<Ext([svc |-> "fetch_weather"])>>
                \o [i \in 1..Len(r.calls) |-> Ext(r.calls[i])]
  /\ pc' = "chat_pipeline"
  /\ UNCHANGED <<inv, app_state, pcq, http>>

\* the language the handler passes to process_chat_query (line 188)
ChatPipelineLanguage == "en"

InternalServerError == [status |-> 500, detail |-> "Internal Server Error"]

\* the handler taking the documents out of app_state with app_state.pop
ChatEnterPipeline_pop ==
  /\ pc = "chat_pipeline"
  /\ IF "faiss_index" \notin app_state.keys \/ "docs" \notin app_state.keys
       THEN /\ http' = InternalServerError
            /\ pc' = "done"
            /\ pcq' = pcq
       ELSE /\ pcq' = PcqFrame(chat.user_query, chat.profile, chat.predictions,
                               app_state.faiss_index, app_state.docs,
                               ChatPipelineLanguage, chat.image_bytes)
            /\ pc' = "pcq_translate"
            /\ http' = http
  /\ app_state' = IF "docs" \in app_state.keys
                    THEN [app_state EXCEPT !.keys = @ \ {"docs"}, !.docs = <<>>]
                    ELSE app_state
  /\ UNCHANGED <<inv, chat, events>>

\* lines 185-190, up to the entry of process_chat_query; app_state[...] of a
\* key that is not set raises KeyError
ChatEnterPipeline ==
  /\ pc = "chat_pipeline"
  /\ IF "faiss_index" \notin app_state.keys \/ "docs" \notin app_state.keys
       THEN /\ http' = InternalServerError
            /\ pc' = "done"
            /\ pcq' = pcq
       ELSE /\ pcq' = PcqFrame(chat.user_query, chat.profile, chat.predictions,
                               app_state.faiss_index, app_state.docs,
                               ChatPipelineLanguage, chat.image_bytes)
            /\ pc' = "pcq_translate"
            /\ http' = http
  /\ UNCHANGED <<inv, app_state, chat, events>>

\* an exception of process_chat_query is not handled by the endpoint
ChatUnhandled ==
  /\ pc = "pcq_raised"
  /\ chat /= Idle
  /\ http' = InternalServerError
  /\ pc' = "done"
  /\ UNCHANGED <<inv, app_state, chat, pcq, events>>

\* the answer translated with the source language set to the output language
ChatAnswerOut_samelang(english_response, language_code, o) ==
  translate_text(english_response, language_code, language_code, o)

\* line 193
ChatAnswerOut(english_response, language_code, o) ==
  translate_text(english_response, "en", language_code, o)

\* the response built without the transcript
ChatResponse_notranscript(response_text, transcribed_text) ==
  [status |-> 200, response_text |-> response_text, transcribed_text |-> None]

ChatResponse(response_text, transcribed_text) ==
  [status |-> 200, response_text |-> response_text,
   transcribed_text |-> transcribed_text]

\* lines 190-195: process_chat_query has returned
ChatTranslateAnswer ==
  /\ pc = "pcq_returned"
  /\ chat /= Idle
  /\ \E o \in StageGenOutcomes :
       LET r == ChatAnswerOut(pcq.response, chat.language_code, o)
       IN  /\ events' = events \o
                StageEvents("translate_text",
                  <<pcq.response, "en", chat.language_code>>, r)
           /\ http' = ChatResponse(r.ret, chat.transcribed_text)
  /\ pc' = "done"
  /\ UNCHANGED <<inv, app_state, chat, pcq>>

-----------------------------------------------------------------------------
(* main.py: generate_structured_log, create_log_from_voice; crud.py:       *)
(* save_log_entry                                                           *)

\* datetime.now(timezone.utc).isoformat().replace("+00:00", "Z")
Timestamp(day) == [py |-> "isoformat", utc_day |-> day]

\* the fixed record of main.py lines 122-130
generate_structured_log(transcribed_text, farm_id, day) ==
  [py |-> "dict", farmId |-> farm_id, activityType |-> "general",
   description |-> transcribed_text, timestamp |-> Timestamp(day)]

\* what _make_api_request('POST', .../activities) returns: None on a failed
\* request, else the decoded JSON body
SaveAnswers == {NoneObj, EmptyDict, [py |-> "dict", id |-> "1"]}

\* save_log_entry posting the log a second time
save_log_entry_twice(farm_id, log_data, answer) ==
  LET post == [svc |-> "crud.save_log_entry", method |-> "POST",
               timeout |-> RequestTimeout, log_data |-> log_data]
  IN  [ret |-> answer, calls |-> <<post, post>>]

\* crud.save_log_entry(farm_id, log_data)
save_log_entry(farm_id, log_data, answer) ==
  [ret |-> answer,
   calls |-> <<[svc |-> "crud.save_log_entry", method |-> "POST",
                timeout |-> RequestTimeout, log_data |-> log_data]>>]

VoiceLanguages == {"mr", "en"}

Skipped(reason) == [status |-> 200, skipped |-> reason]

\* schemas.VoiceLogResponse with its schemas.LogEntry
VoiceLogResponse(transcribed_text, api_log, date_str) ==
  [status |-> 200, transcribed_text |-> transcribed_text,
   structured_log |->
     [notes |-> api_log.description, log_type |-> api_log.activityType,
      summary |-> api_log.description,
      details |-> DictGet(api_log, "details", EmptyDict),
      date |-> date_str]]

\* lines 214-222: the upload is read
VoiceReceive ==
  /\ pc = "serving"
  /\ \E audio_bytes \in AudioUploads \ {None}, language_code \in VoiceLanguages :
       /\ inv' = [fn |-> "create_log_from_voice", farm_id |-> "f",
                  audio_bytes |-> audio_bytes, language_code |-> language_code,
                  transcribed_text |-> None, saved_log_response |-> NoneObj]
       /\ IF audio_bytes = <<>>
            THEN /\ http' = Skipped("Empty audio file")
                 /\ pc' = "done"
            ELSE /\ http' = http
                 /\ pc' = "voice_transcribe"
  /\ UNCHANGED <<app_state, chat, pcq, events>>

\* lines 224-227
VoiceTranscribe ==
  /\ pc = "voice_transcribe"
  /\ \E so \in SpeechOutcomes :
       LET r == transcribe_audio_with_google(app_state, inv.audio_bytes,
                                             inv.language_code, so)
       IN  /\ events' = events \o
                [i \in 1..Len(r.calls) |-> Ext(r.calls[i])]
           /\ IF r.status /= 0
                THEN /\ http' = HTTPException(r.status, "transcription")
                     /\ pc' = "done"
                     /\ inv' = inv
              ELSE IF ~Truthy(r.ret)
                THEN /\ http' = Skipped("No transcription result")
                     /\ pc' = "done"
                     /\ inv' = [inv EXCEPT !.transcribed_text = r.ret]
              ELSE /\ inv' = [inv EXCEPT !.transcribed_text = r.ret]
                   /\ pc' = "voice_save"
                   /\ http' = http
  /\ UNCHANGED <<app_state, chat, pcq>>

\* lines 229-258: the record is built, stamped again and saved; the date of
\* the response is the UTC date of the second time stamp
VoiceSave ==
  /\ pc = "voice_save"
  /\ \E d1 \in Days, d2 \in Days, answer \in SaveAnswers :
       /\ d1 <= d2
       /\ LET built == generate_structured_log(inv.transcribed_text,
                                               inv.farm_id, d1)
              api_log == [built EXCEPT !.timestamp = Timestamp(d2)]
              r == save_log_entry(inv.farm_id, api_log, answer)
          IN  /\ events' = events \o
                   [i \in 1..Len(r.calls) |-> Ext(r.calls[i])]
              /\ inv' = [inv EXCEPT !.saved_log_response = r.ret]
              /\ http' =
                   IF ~DictTruthy(r.ret)
                     THEN HTTPException(500,
                            "Failed to save log entry to the database.")
                     ELSE VoiceLogResponse(inv.transcribed_text, api_log,
                                           api_log.timestamp.utc_day)
  /\ pc' = "done"
  /\ UNCHANGED <<app_state, chat, pcq>>

-----------------------------------------------------------------------------
(* main.py: get_proactive_alerts *)

\* the fields schemas.Alert requires, all of type str
AlertFields == {"id", "severity", "title", "message", "suggestion"}

PyStr(x) == [py |-> "str", s |-> x]
PyInt(n) == [py |-> "int", n |-> n]

\* raw alerts of the backend: one with every field as a string, one without
\* the field suggestion, one whose id is a number, one with one more field
ValidAlert ==
  [py |-> "dict", id |-> PyStr("1"), severity |-> PyStr("s"),
   title |-> PyStr("t"), message |-> PyStr("m"), suggestion |-> PyStr("g")]
InvalidAlert ==
  [py |-> "dict", id |-> PyStr("2"), severity |-> PyStr("s"),
   title |-> PyStr("t"), message |-> PyStr("m")]
NumericIdAlert ==
  [py |-> "dict", id |-> PyInt(3), severity |-> PyStr("s"),
   title |-> PyStr("t"), message |-> PyStr("m"), suggestion |-> PyStr("g")]
ExtraFieldAlert ==
  [py |-> "dict", id |-> PyStr("4"), severity |-> PyStr("s"),
   title |-> PyStr("t"), message |-> PyStr("m"), suggestion |-> PyStr("g"),
   farmId |-> PyStr("f")]

RawAlerts == {ValidAlert, InvalidAlert, NumericIdAlert, ExtraFieldAlert}

MaxAlerts == 2

\* validation that only looks for the presence of the fields
AlertValidates_presence(a) == \A f \in AlertFields : f \in DOMAIN a

\* schemas.Alert(**a) succeeds: every required field is there and is a str
\* (pydantic 2 does not turn a number into a str)
AlertValidates(a) ==
  \A f \in AlertFields : f \in DOMAIN a /\ a[f].py = "str"

\* the schemas.Alert built from a raw alert: other fields are ignored
AlertModel(a) == [f \in AlertFields |-> a[f]]

\* requests.get(url) without a timeout, then .json(): the backend never
\* answers, the request or the decoding raises, or a JSON value arrives: a
\* list of alerts, an object or null
AlertsOutcomes ==
  {[kind |-> "no_answer"], [kind |-> "raise"]}
    \cup {[kind |-> "json", body |-> [py |-> "list", items |-> b]] :
            b \in SeqsUpTo(RawAlerts, MaxAlerts)}
    \cup {[kind |-> "json", body |-> [py |-> "dict", detail |-> "x"]],
          [kind |-> "json", body |-> NoneObj]}

\* lines 267-272: the loop over raw_alerts; iterating an object gives its
\* keys, none of which is a mapping
CollectAlerts(raw_alerts) ==
  IF raw_alerts.py = "list"
    THEN LET kept == SelectSeq(raw_alerts.items, AlertValidates)
         IN  [i \in 1..Len(kept) |-> AlertModel(kept[i])]
    ELSE <<>>

AlertsResponse(alerts) == [status |-> 200, alerts |-> alerts]

\* line 264: the request arrives
AlertsReceive ==
  /\ pc = "serving"
  /\ inv' = [fn |-> "get_proactive_alerts", user_id |-> "u",
             raw_alerts |-> NoneObj]
  /\ pc' = "alerts_get"
  /\ UNCHANGED <<app_state, chat, pcq, events, http>>

\* lines 265-273; with no answer the call never returns and the handler
\* stays blocked in it
AlertsGet ==
  /\ pc = "alerts_get"
  /\ events' = events \o <<Ext([svc |-> "requests.get", method |-> "GET",
                                url |-> "alerts"])>>
  /\ \E o \in AlertsOutcomes :
       CASE o.kind = "no_answer" ->
              pc' = "alerts_blocked" /\ http' = http /\ inv' = inv
         [] o.kind = "raise" ->
              pc' = "done" /\ http' = InternalServerError /\ inv' = inv
         [] o.kind = "json" ->
              /\ pc' = "done"
              /\ inv' = [inv EXCEPT !.raw_alerts = o.body]
              /\ http' = IF o.body = NoneObj
                           THEN InternalServerError
                           ELSE AlertsResponse(CollectAlerts(o.body))
  /\ UNCHANGED <<app_state, chat, pcq>>

-----------------------------------------------------------------------------
(* SpecHelpers: the helper functions of main.py, crud.py and ml_utils.py,   *)
(* each applied once to arbitrary inputs and outcomes of its external call. *)

\* app_state after a startup that did or did not create the speech client
SpeechStates ==
  {AppStateEmpty,
   [AppStateEmpty EXCEPT !.keys = {"speech_client"},
                         !.speech_client = [py |-> "SpeechClient"]]}

\* the recognition may also report a first alternative that is empty
HelperSpeechOutcomes ==
  SpeechOutcomes \cup {[kind |-> "results", transcript |-> <<>>]}

\* uploads: empty, decodable, not decodable
HelperAudio == {<<>>, <<"A">>, <<"x">>}

CallTranscribe ==
  /\ inv = NoInv
  /\ \E state \in SpeechStates, audio_bytes \in HelperAudio,
        language_code \in VoiceLanguages, so \in HelperSpeechOutcomes :
       inv' = [fn |-> "transcribe_audio_with_google",
               args |-> [state |-> state, audio_bytes |-> audio_bytes,
                         language_code |-> language_code, so |-> so],
               out |-> transcribe_audio_with_google(state, audio_bytes,
                                                    language_code, so)]

\* str.upper() of the method names used
Upper(method) ==
  CASE method = "get" -> "GET"
    [] method = "post" -> "POST"
    [] OTHER -> method

Methods == {"GET", "POST", "get", "PUT"}

\* decoded JSON bodies the backend can send: null, an object, lists of farms
JsonBodies ==
  {NoneObj, [py |-> "dict", detail |-> "x"], [py |-> "list", items |-> <<>>],
   [py |-> "list", items |-> <<EmptyDict>>],
   [py |-> "list", items |-> <<[py |-> "dict", village |-> "v"]>>],
   [py |-> "list", items |-> <<[py |-> "dict", village |-> "v"],
                               [py |-> "dict", village |-> "w"]>>]}

StatusCodes == {200, 201, 404, 500}

\* what happens to the HTTP request: no connection, no answer within the
\* timeout, or an answer with a status and a body that decodes or does not
HttpOutcomes ==
  {[kind |-> "connection_error"], [kind |-> "timeout"]}
    \cup {[kind |-> "answer", status |-> c, decodes |-> FALSE, body |-> NoneObj] :
            c \in StatusCodes}
    \cup {[kind |-> "answer", status |-> c, decodes |-> TRUE, body |-> b] :
            c \in StatusCodes, b \in JsonBodies}

\* _make_api_request without response.raise_for_status()
_make_api_request_anystatus(method, o) ==
  LET request == [svc |-> "requests", method |-> Upper(method),
                  timeout |-> RequestTimeout]
  IN  IF Upper(method) \notin {"GET", "POST"}
        THEN [ret |-> NoneObj, raised |-> TRUE, calls |-> <<>>]
      ELSE IF o.kind /= "answer" \/ ~o.decodes
        THEN [ret |-> NoneObj, raised |-> FALSE, calls |-> <<request>>]
      ELSE [ret |-> o.body, raised |-> FALSE, calls |-> <<request>>]

\* crud._make_api_request(method, endpoint, json_data); o is the outcome of
\* the HTTP request.  ConnectionError, Timeout, the HTTPError of
\* raise_for_status and the JSONDecodeError of response.json() are
\* RequestExceptions; the ValueError for another method is not
_make_api_request(method, o) ==
  LET request == [svc |-> "requests", method |-> Upper(method),
                  timeout |-> RequestTimeout]
  IN  IF Upper(method) \notin {"GET", "POST"}
        THEN [ret |-> NoneObj, raised |-> TRUE, calls |-> <<>>]
      ELSE IF o.kind /= "answer"
        THEN [ret |-> NoneObj, raised |-> FALSE, calls |-> <<request>>]
      ELSE IF o.status >= 400
        THEN [ret |-> NoneObj, raised |-> FALSE, calls |-> <<request>>]
      ELSE IF ~o.decodes
        THEN [ret |-> NoneObj, raised |-> FALSE, calls |-> <<request>>]
      ELSE [ret |-> o.body, raised |-> FALSE, calls |-> <<request>>]

CallApiRequest ==
  /\ inv = NoInv
  /\ \E method \in Methods, o \in HttpOutcomes :
       inv' = [fn |-> "_make_api_request",
               args |-> [method |-> method, o |-> o],
               out |-> _make_api_request(method, o)]

\* crud.get_user_profile(user_id) on top of the request
CallGetUserProfile ==
  /\ inv = NoInv
  /\ \E o \in HttpOutcomes :
       LET r == _make_api_request("GET", o)
       IN  inv' = [fn |-> "get_user_profile",
                   args |-> [method |-> "GET", o |-> o],
                   out |-> IF r.raised THEN r
                           ELSE [r EXCEPT !.ret = get_user_profile(r.ret)]]

\* farm documents as the backend may store them: the primary crop and the
\* schemes are absent, of the expected type, or of another type
HelperProfiles ==
  {[py |-> "dict", village |-> "v"],
   [py |-> "dict", village |-> "v",
    primary_crop |-> [py |-> "str", s |-> "Paddy"],
    participation_in_govt_schemes |-> PyList(<<[py |-> "str", s |-> "PM-KISAN"]>>)],
   [py |-> "dict", village |-> "v", primary_crop |-> NoneObj],
   [py |-> "dict", village |-> "v",
    participation_in_govt_schemes |-> [py |-> "str", s |-> "PM-KISAN"]],
   [py |-> "dict", village |-> "v", participation_in_govt_schemes |-> NoneObj]}

\* structured_llm.invoke raises, answers a report, or answers None
HelperPredictionOutcomes == PredictionOutcomes \cup {"none"}

CallDashboardPredictions ==
  /\ inv = NoInv
  /\ \E profile \in HelperProfiles, weather \in WeatherOutcomes,
        po \in HelperPredictionOutcomes :
       inv' = [fn |-> "get_dashboard_predictions",
               args |-> [profile |-> profile, weather |-> weather, po |-> po],
               out |-> get_dashboard_predictions(profile, weather, po)]

NextHelpers ==
  \/ CallTranscribe /\ UNCHANGED <<pc, app_state, chat, pcq, events, http>>
  \/ CallApiRequest /\ UNCHANGED <<pc, app_state, chat, pcq, events, http>>
  \/ CallGetUserProfile /\ UNCHANGED <<pc, app_state, chat, pcq, events, http>>
  \/ CallDashboardPredictions /\ UNCHANGED <<pc, app_state, chat, pcq, events, http>>

SpecHelpers == InitUtils /\ [][NextHelpers]_vars

-----------------------------------------------------------------------------
(* main.py: get_dashboard_data, get_weather_for_user *)

DashboardData(profile, weather, predictions) ==
  [status |-> 200, user_profile |-> profile, weather |-> weather,
   predictions |-> predictions]

\* lines 136-137, 144-145: a request for the dashboard or for the weather
InfoReceive ==
  /\ pc = "serving"
  /\ \E fn \in {"get_dashboard_data", "get_weather_for_user"} :
       inv' = [fn |-> fn, farms |-> NoneObj, profile |-> NoneObj]
  /\ pc' = "info_profile"
  /\ UNCHANGED <<app_state, chat, pcq, events, http>>

\* lines 138-139, 146-147
InfoGetProfile ==
  /\ pc = "info_profile"
  /\ \E farms \in FarmsAnswers :
       LET profile == get_user_profile(farms)
       IN  /\ events' = events \o
                <<Ext([svc |-> "crud.get_user_profile", method |-> "GET",
                       timeout |-> RequestTimeout])>>
           /\ inv' = [inv EXCEPT !.farms = farms, !.profile = profile]
           /\ IF ~DictTruthy(profile)
                THEN /\ http' = HTTPException(404, "not found")
                     /\ pc' = "done"
                ELSE /\ http' = http
                     /\ pc' = IF inv.fn = "get_dashboard_data"
                                THEN "dashboard_context" ELSE "weather_fetch"
  /\ UNCHANGED <<app_state, chat, pcq>>

\* lines 140-142
DashboardContext ==
  /\ pc = "dashboard_context"
  /\ \E weather_data \in WeatherOutcomes, po \in PredictionOutcomes :
       LET r == get_dashboard_predictions(inv.profile, weather_data, po)
       IN  /\ events' = events \o <<Ext([svc |-> "fetch_weather"])>>
                \o [i \in 1..Len(r.calls) |-> Ext(r.calls[i])]
           /\ http' = IF DashboardPredictionsValidates(r.ret)
                        THEN DashboardData(inv.profile, weather_data, r.ret)
                        ELSE InternalServerError
  /\ pc' = "done"
  /\ UNCHANGED <<inv, app_state, chat, pcq>>

\* lines 148-150
WeatherFetch ==
  /\ pc = "weather_fetch"
  /\ \E weather_data \in WeatherOutcomes :
       /\ events' = events \o <<Ext([svc |-> "fetch_weather"])>>
       /\ http' = IF "error" \in DOMAIN weather_data
                    THEN HTTPException(500, weather_data.error)
                    ELSE [status |-> 200, weather |-> weather_data]
  /\ pc' = "done"
  /\ UNCHANGED <<inv, app_state, chat, pcq>>

\* the response has been sent; the server goes on serving
RequestDone ==
  /\ pc = "done"
  /\ pc' = "serving"
  /\ inv' = NoInv
  /\ chat' = Idle
  /\ pcq' = Idle
  /\ events' = <<>>
  /\ http' = NoResponse
  /\ UNCHANGED app_state

Init ==
  /\ inv = NoInv
  /\ pc = "startup"
  /\ app_state = AppStateEmpty
  /\ chat = Idle
  /\ pcq = Idle
  /\ events = <<>>
  /\ http = NoResponse

Next ==
  \/ Startup
  \/ Shutdown
  \/ ChatReceive
  \/ ChatGetProfile
  \/ ChatTranscribe
  \/ ChatTranslateAudio
  \/ ChatCheckQuery
  \/ ChatContext
  \/ ChatEnterPipeline
  \/ PcqTranslate
  \/ PcqImage
  \/ PcqRetrieve
  \/ PcqSynthesize
  \/ ChatUnhandled
  \/ ChatTranslateAnswer
  \/ VoiceReceive
  \/ VoiceTranscribe
  \/ VoiceSave
  \/ AlertsReceive
  \/ AlertsGet
  \/ InfoReceive
  \/ InfoGetProfile
  \/ DashboardContext
  \/ WeatherFetch
  \/ RequestDone

Spec == Init /\ [][Next]_vars

-----------------------------------------------------------------------------
(* Claims about POST /chat/{user_id} *)

InChat == chat /= Idle /\ pc /= "chat_profile"
FromAudio == chat.audio_file /= None

\* the query as the user gave it, and the language it is in: the transcript
\* in the language it was transcribed in, or the typed text
RawQuery == IF FromAudio THEN chat.transcribed_text ELSE chat.text_query
QueryLanguage == IF FromAudio THEN chat.source_language ELSE chat.text_lang

\* positions of events
CallsOf(fn) == {i \in 1..Len(events) : IsCallOf(events[i], fn)}
SynthesisAt == {i \in 1..Len(events) : IsSynthesisCall(events[i])}

\* the value returned by the call entered at position i
ReturnOf(i) ==
  LET j == CHOOSE j \in (i + 1)..Len(events) :
             /\ events[j].ev = "return"
             /\ \A m \in (i + 1)..(j - 1) : events[m].ev /= "return"
  IN  events[j].data

\* an external call to the translation model at position i
IsTranslationCall(i, text, src_name, dest_name) ==
  /\ events[i].ev = "ext"
  /\ events[i].fn = "translation_model.generate_content"
  /\ events[i].data.text = text
  /\ events[i].data.src_name = src_name
  /\ events[i].data.dest_name = dest_name

\* C9: when the query of a chat request is in a language L other than
\* English, the text passed to rag_retrieve and put into the synthesis prompt
\* is the result of translating that query from L to English.
C9_QueryTranslatedFromItsLanguage ==
  (InChat /\ QueryLanguage /= "en") =>
    /\ \A i \in CallsOf("rag_retrieve") :
         \E j \in CallsOf("translate_text") :
           /\ j < i
           /\ events[j].data = <<RawQuery, QueryLanguage, "en">>
           /\ events[i].data[1] = ReturnOf(j)
    /\ \A i \in SynthesisAt :
         \E j \in CallsOf("translate_text") :
           /\ j < i
           /\ events[j].data = <<RawQuery, QueryLanguage, "en">>
           /\ events[i].data.eng_query = ReturnOf(j)

\* C10: a text chat request with output language "hi" and no image or audio
\* calls translate_text exactly twice, on the query before retrieval and on
\* the answer after synthesis, and response_text is what the translation of
\* the synthesizer's answer from English to Hindi returned.
C10_TwoTranslationsAnswerOut ==
  (/\ chat /= Idle
   /\ http.status = 200
   /\ chat.language_code = "hi"
   /\ chat.audio_file = None
   /\ chat.image_file = None) =>
    /\ Cardinality(CallsOf("translate_text")) = 2
    /\ \E q \in CallsOf("translate_text"), a \in CallsOf("translate_text") :
         /\ q < a
         /\ events[q].data[1] = chat.text_query
         /\ \A i \in CallsOf("rag_retrieve") : q < i
         /\ \A i \in SynthesisAt : i < a
         /\ events[a].data = <<pcq.response, "en", "hi">>
         /\ IsTranslationCall(a + 1, pcq.response, "English", "Hindi")
         /\ http.response_text = ReturnOf(a)

\* the synthesizer's answer needed stripping and the model translated it
C10_Witness ==
  /\ chat /= Idle
  /\ http.status = 200
  /\ chat.language_code = "hi"
  /\ chat.audio_file = None
  /\ chat.image_file = None
  /\ pcq.response = <<"a", " ">>
  /\ http.response_text = <<"a">>
  /\ Cardinality(CallsOf("translate_text")) = 2

\* the handler has found the profile
ProfileFound == chat /= Idle /\ DictTruthy(chat.profile)

\* external calls of one service issued so far
ExtCalls(svc) == {i \in 1..Len(events) : events[i].ev = "ext" /\ events[i].fn = svc}

\* the request carries no usable query: neither text nor audio, or audio
\* whose transcript is empty
NoUsableQuery ==
  \/ chat.audio_file = None /\ ~Truthy(chat.text_query)
  \/ chat.audio_file /= None /\ chat.transcribed_text = <<>>

ChatBeforeQueryCheck ==
  pc \in {"chat_profile", "chat_transcribe", "chat_translate_audio",
          "chat_check_query"}

\* C11: a chat request without a usable query (no text and no audio, or an
\* empty transcript, whatever the profile's preferred language) is rejected
\* with 400 "No query provided." and issues no retrieval, prediction or
\* synthesis call.
C11_NoQueryRejected ==
  (ProfileFound /\ NoUsableQuery) =>
    /\ pc \in {"done"} \cup
         {"chat_profile", "chat_transcribe", "chat_translate_audio",
          "chat_check_query"}
    /\ pc = "done" => http = HTTPException(400, "No query provided.")
    /\ ExtCalls("structured_llm.invoke") = {}
    /\ ExtCalls("genai.embed_content") = {}
    /\ ExtCalls("index.search") = {}
    /\ SynthesisAt = {}

\* the handler is past the query check of line 178
QueryAccepted == ProfileFound /\ ExtCalls("fetch_weather") /= {}

\* C12: once the profile is found and the query is non-empty, no failure of a
\* pipeline stage or of the index load becomes a hard rejection: the request
\* ends with a ChatResponse.
C12_AlwaysChatResponse ==
  (QueryAccepted /\ pc = "done") => http.status = 200

\* services with a single call site on the path of a request
SingleSiteServices ==
  {"crud.get_user_profile", "speech_client.recognize", "fetch_weather",
   "structured_llm.invoke", "genai.embed_content", "index.search",
   "crud.save_log_entry", "requests.get"}

TranslationModelCalls == ExtCalls("translation_model.generate_content")

\* C13: no external call is retried: within one request the profile lookup,
\* the transcription, the weather and prediction calls, the embedding, the
\* index search, the image analysis, the synthesis and the log save are each
\* issued at most once, and every translate_text call issues at most one
\* call of the translation model, whatever the outcome of that call.
C13_NoRetry ==
  /\ \A svc \in SingleSiteServices : Cardinality(ExtCalls(svc)) <= 1
  /\ MultimodalCalls <= 1
  /\ Cardinality(SynthesisAt) <= 1
  /\ Cardinality(CallsOf("translate_text")) <= 3
  /\ \A i \in TranslationModelCalls :
       /\ i > 1 /\ IsCallOf(events[i - 1], "translate_text")
       /\ i < Len(events) /\ events[i + 1].ev = "return"
  /\ \A i \in 1..(Len(events) - 1) :
       (events[i].ev = "ext" /\ events[i + 1].ev = "ext") =>
         events[i].fn /= events[i + 1].fn

\* a chat request in which the embedding call failed and the translation of
\* the answer failed, and a voice log whose save failed
C13_Witness ==
  \/ /\ pc = "done" /\ chat /= Idle /\ http.status = 200
     /\ http.response_text = TranslationError
     /\ Cardinality(TranslationModelCalls) = 2
     /\ Cardinality(ExtCalls("genai.embed_content")) = 1
     /\ ExtCalls("index.search") = {}
  \/ /\ pc = "done" /\ inv.fn = "create_log_from_voice" /\ http.status = 500
     /\ Cardinality(ExtCalls("crud.save_log_entry")) = 1

\* C15: whenever load_faiss_index returned an index and a document list
\* (and so whenever they are stored in app_state), the index holds as many
\* vectors as there are documents.
C15_IndexSizeEqualsDocCount ==
  "faiss_index" \in app_state.keys =>
    app_state.faiss_index.ntotal = Len(app_state.docs)

\* the display names the specification lists
ExpectedName(code) ==
  CASE code = "ml" -> "Malayalam"
    [] code = "mr" -> "Marathi"
    [] code = "hi" -> "Hindi"
    [] code = "en" -> "English"
    [] OTHER -> code

\* C16: resolving a language code to its display name never fails: ml, mr,
\* hi, en give Malayalam, Marathi, Hindi, English and every other code gives
\* itself, in the prompt of translate_text and in the language name of
\* process_chat_query.
C16_LanguageNames ==
  /\ pc /= "pcq_translate" =>
       pcq.native_language_name = ExpectedName(pcq.language)
  /\ \A i \in TranslationModelCalls :
       /\ events[i].data.src_name = ExpectedName(pcq.language)
       /\ events[i].data.dest_name = "English"

\* a query in a language outside the table went through translation
C16_Witness ==
  /\ pc = "pcq_returned"
  /\ pcq.language = "ta"
  /\ pcq.native_language_name = "ta"
  /\ \E i \in TranslationModelCalls : events[i].data.src_name = "ta"

\* a retrieval on the loaded documents succeeded
RagSucceeded ==
  /\ pc = "rag_done"
  /\ inv.args.eo = "ok"
  /\ inv.args.so.kind = "ok"
  /\ inv.out.ret /= RetrievalError

\* s is t with some elements left out, order kept
RECURSIVE IsSubsequence(_, _)
IsSubsequence(s, t) ==
  IF s = <<>> THEN TRUE
  ELSE IF t = <<>> THEN FALSE
  ELSE IF Head(s) = Head(t) THEN IsSubsequence(Tail(s), Tail(t))
  ELSE IsSubsequence(s, Tail(t))

\* the documents, each but the last followed by the separator
RECURSIVE Separated(_)
Separated(ds) ==
  IF Len(ds) <= 1 THEN Concat(ds)
  ELSE ds[1] \o <<"\n", "-", "-", "-", "\n">> \o Separated(Tail(ds))

\* the context is the retrieved documents in the reported order, duplicates
\* kept, with the separator between them
ContextIsJoin ==
  LET out == inv.out
  IN  /\ IsSubsequence(out.relevant_pos, inv.args.so.indices)
      /\ Len(out.relevant_docs) = Len(out.relevant_pos)
      /\ \A j \in 1..Len(out.relevant_pos) :
           out.relevant_docs[j] = PyGetItem(app_state.docs, out.relevant_pos[j])
      /\ out.ret = Separated(out.relevant_docs)

EndsWith(s, t) ==
  Len(s) >= Len(t) /\ SubSeq(s, Len(s) - Len(t) + 1, Len(s)) = t

\* C17 as stated: the context of a successful rag_retrieve is the retrieved
\* documents in the reported order, duplicates kept, joined with "\n---\n",
\* and splitting the context on the separator gives back exactly the
\* retrieved documents.
C17_SplitGivesBackRetrieved ==
  RagSucceeded =>
    /\ ContextIsJoin
    /\ Split(inv.out.ret, Sep) = inv.out.relevant_docs

\* C17, amended: the context is the join of the retrieved documents in the
\* reported order, duplicates kept; splitting it gives back the retrieved
\* documents provided at least one document was retrieved and no retrieved
\* document before the last ends with "\n---"; with no document retrieved
\* the split gives one empty string.
C17_SplitGivesBackUnlessOverlap ==
  RagSucceeded =>
    LET ds == inv.out.relevant_docs
    IN  /\ ContextIsJoin
        /\ ds = <<>> => Split(inv.out.ret, Sep) = << <<>> >>
        /\ (/\ ds /= <<>>
            /\ \A j \in 1..(Len(ds) - 1) : ~EndsWith(ds[j], <<"\n", "-", "-", "-">>))
             => Split(inv.out.ret, Sep) = ds

\* two different documents were retrieved, the later one first, and the
\* split gave them back
C17_Witness ==
  /\ RagSucceeded
  /\ Len(inv.out.relevant_docs) = 2
  /\ inv.out.relevant_pos = <<1, 0>>
  /\ inv.out.relevant_docs[1] /= inv.out.relevant_docs[2]
  /\ Split(inv.out.ret, Sep) = inv.out.relevant_docs

IsStructuredLog == inv.fn = "generate_structured_log"

\* C18: when the notes state no date, the date of the structured log record
\* that the extraction returns is the current date.
C18_DateDefaultsToToday ==
  (/\ IsStructuredLog
   /\ ~inv.args.log_notes.states_date
   /\ inv.out.ret /= EmptyDict)
    => inv.out.ret.date = IsoDate(inv.args.today)

\* C19: generate_structured_log never raises, and it returns either a record
\* whose details is a key/value map or the empty record {}.
C19_DetailsIsMap ==
  IsStructuredLog =>
    /\ ~inv.out.raised
    /\ \/ inv.out.ret = EmptyDict
       \/ inv.out.ret.details.py = "dict"

\* outbound HTTP calls to the farm-data backend
BackendCalls ==
  {i \in 1..Len(events) :
     /\ events[i].ev = "ext"
     /\ events[i].fn \in {"crud.get_user_profile", "crud.save_log_entry",
                          "requests.get"}}

\* C20: every outbound HTTP call to the farm-data backend carries a bounded
\* timeout, so no request handler waits for the backend for ever.
C20_BackendCallsBounded ==
  /\ \A i \in BackendCalls :
       /\ "timeout" \in DOMAIN events[i].data
       /\ events[i].data.timeout > 0
  /\ pc /= "alerts_blocked"

\* what startup loaded: the two keys and the objects stored under them
LoadedIndexAndDocs ==
  <<app_state.keys \cap {"faiss_index", "docs"}, app_state.faiss_index,
    app_state.docs>>

ProfileEndpoints == {"get_dashboard_data", "get_weather_for_user"}

LookedUp ==
  \/ inv.fn \in ProfileEndpoints /\ pc /= "info_profile"
  \/ chat /= Idle /\ pc /= "chat_profile"

LookupFrame == IF chat /= Idle THEN chat ELSE inv

\* the backend answers the claim names: a failed request, a body that is not
\* a list, an empty list of farms
NoFarmAnswer(farms) ==
  \/ farms = NoneObj
  \/ farms.py /= "list"
  \/ farms.py = "list" /\ farms.items = <<>>

\* C21: for /dashboard, /weather and /chat the profile lookup is the first
\* external call; when it yields no profile (failed request, non-list answer
\* or empty farm list) the request is rejected with 404 and no weather,
\* prediction, transcription, translation, retrieval or synthesis call is
\* issued.
C21_ProfileFirstElse404 ==
  /\ (chat /= Idle \/ inv.fn \in ProfileEndpoints) =>
       (events /= <<>> =>
          events[1].ev = "ext" /\ events[1].fn = "crud.get_user_profile")
  /\ LookedUp =>
       ((NoFarmAnswer(LookupFrame.farms) \/ ~DictTruthy(LookupFrame.profile)) =>
          /\ pc = "done"
          /\ http.status = 404
          /\ Len(events) = 1)

\* the dashboard endpoint has rejected a request whose lookup gave no
\* farm
C21_Witness ==
  /\ pc = "done"
  /\ http.status = 404
  /\ inv.fn = "get_dashboard_data"
  /\ inv.farms = [py |-> "list", items |-> <<>>]

IsTranscribe == inv.fn = "transcribe_audio_with_google"

\* C22: transcribe_audio_with_google has exactly four outcomes: HTTP 503 and
\* no recognition call when the speech client was not loaded; HTTP 500 when
\* the audio decoding or the recognition call raises; the empty string when
\* the recognition returns no results; otherwise the first alternative of
\* the first result.
C22_FourOutcomes ==
  IsTranscribe =>
    LET a == inv.args
        r == inv.out
        Recognitions == {i \in 1..Len(r.calls) :
                           r.calls[i].svc = "speech_client.recognize"}
    IN  IF "speech_client" \notin a.state.keys
          THEN r.status = 503 /\ Recognitions = {}
        ELSE IF a.audio_bytes = <<>> \/ a.audio_bytes[1] /= "A"
          THEN r.status = 500 /\ Recognitions = {}
        ELSE IF a.so.kind = "raise"
          THEN r.status = 500
        ELSE IF a.so.kind = "no_results"
          THEN r.status = 0 /\ r.ret = <<>>
        ELSE r.status = 0 /\ r.ret = a.so.transcript

\* the client is missing and the audio is good: 503, nothing sent
C22_Witness ==
  /\ IsTranscribe
  /\ "speech_client" \notin inv.args.state.keys
  /\ inv.args.audio_bytes = <<"A">>
  /\ inv.out.status = 503
  /\ inv.out.calls = <<>>

IsVoiceLog == inv.fn = "create_log_from_voice"

SaveCalls == ExtCalls("crud.save_log_entry")

IsVoiceLogResponse == http.status = 200 /\ "structured_log" \in DOMAIN http

\* C23: in POST /logs/voice the backend save is attempted at most once and
\* only after the audio and the transcript were non-empty; an empty audio
\* file or an empty transcript gives a "skipped" result with its reason and
\* no save, a failed save gives HTTP 500, and a VoiceLogResponse is returned
\* only when the backend acknowledged the save.
C23_SaveOnceAfterChecks ==
  IsVoiceLog =>
    /\ Cardinality(SaveCalls) <= 1
    /\ SaveCalls /= {} =>
         /\ inv.audio_bytes /= <<>>
         /\ inv.transcribed_text \notin {None, <<>>}
    /\ (pc = "done" /\ inv.audio_bytes = <<>>) =>
         /\ http = [status |-> 200, skipped |-> "Empty audio file"]
         /\ events = <<>>
    /\ (pc = "done" /\ inv.transcribed_text = <<>>) =>
         /\ http = [status |-> 200, skipped |-> "No transcription result"]
         /\ SaveCalls = {}
    /\ (pc = "done" /\ SaveCalls /= {} /\ inv.saved_log_response = NoneObj) =>
         http.status = 500
    /\ IsVoiceLogResponse =>
         /\ SaveCalls /= {}
         /\ inv.saved_log_response \notin {NoneObj, EmptyDict}

\* a voice log was transcribed, saved and acknowledged
C23_Witness ==
  /\ IsVoiceLog
  /\ pc = "done"
  /\ IsVoiceLogResponse
  /\ Cardinality(SaveCalls) = 1
  /\ http.transcribed_text = <<"a">>

IsApiRequest == inv.fn = "_make_api_request"
IsGetUserProfile == inv.fn = "get_user_profile"

\* the request succeeded: an answer with a 2xx status and a JSON body
RequestSucceeded(o) ==
  o.kind = "answer" /\ o.status \in 200..299 /\ o.decodes

AlertsAnswered ==
  /\ inv.fn = "get_proactive_alerts"
  /\ pc = "done"
  /\ inv.raw_alerts.py = "list"

HasRequiredFields(a) ==
  {"id", "severity", "title", "message", "suggestion"} \subseteq DOMAIN a

IsValidAlert(a) ==
  /\ HasRequiredFields(a)
  /\ \A f \in {"id", "severity", "title", "message", "suggestion"} :
       a[f] \in {PyStr(x) : x \in {"1", "2", "4", "s", "t", "m", "g"}}

IsPredictions == inv.fn = "get_dashboard_predictions"

\* C26: get_dashboard_predictions never propagates a failure of the
\* structured call: on any exception it returns a default dictionary that
\* matches the DashboardPredictions schema for every profile, so that
\* GET /dashboard can build its response from it.
C26_DefaultMatchesSchema ==
  (IsPredictions /\ inv.args.po /= "report") =>
    /\ ~inv.out.raised
    /\ inv.out.ret.recommended_crop = "Rice"
    /\ inv.out.ret.price_crop_name.py = "str"
    /\ inv.out.ret.applied_schemes.py = "list"

\* what the recogniser can have returned
RawTranscripts == {<<>>} \cup TranscriptPool

\* C27: in POST /chat, when an audio file is supplied the query given to the
\* pipeline is what translating the transcript to English returned, and the
\* text_query sent with it is not used; the transcribed_text of the response
\* is non-null if and only if an audio file was supplied, and it is the raw
\* transcript, not its translation.
C27_AudioQueryAndTranscript ==
  /\ (chat /= Idle /\ FromAudio /\ pcq /= Idle) =>
       /\ chat.transcribed_text \in RawTranscripts
       /\ \E j \in CallsOf("translate_text") :
            /\ \A m \in CallsOf("translate_text") : j <= m
            /\ events[j].data = <<chat.transcribed_text, chat.source_language, "en">>
            /\ pcq.query = ReturnOf(j)
  /\ (chat /= Idle /\ http.status = 200) =>
       /\ (http.transcribed_text /= None) <=> FromAudio
       /\ FromAudio =>
            /\ chat.transcribed_text \in RawTranscripts
            /\ http.transcribed_text = chat.transcribed_text

\* audio and a different typed text were sent together; the translation of
\* the transcript failed, and the response still carries the transcript
C27_Witness ==
  /\ chat /= Idle
  /\ http.status = 200
  /\ FromAudio
  /\ chat.text_query = <<"a">>
  /\ chat.source_language = "hi"
  /\ pcq.query = TranslationError
  /\ http.transcribed_text = <<"a">>

\* C28: startup always completes, whether or not the speech client and the
\* index load; load_faiss_index gives either an index together with a
\* document list or neither; in every reachable state app_state holds
\* "faiss_index" if and only if it holds "docs"; after shutdown app_state is
\* empty.
C28_StartupAndShutdown ==
  /\ pc = "startup" => ENABLED Startup
  /\ "faiss_index" \in app_state.keys <=> "docs" \in app_state.keys
  /\ "faiss_index" \in app_state.keys =>
       /\ app_state.faiss_index /= NoneObj
       /\ app_state.docs /= <<>>
  /\ "faiss_index" \notin app_state.keys =>
       /\ app_state.faiss_index = NoneObj
       /\ app_state.docs = <<>>
  /\ app_state.keys \subseteq {"speech_client", "faiss_index", "docs"}
  /\ pc = "stopped" => app_state = AppStateEmpty

\* startup completed although neither the speech client nor the index loaded
C28_Witness ==
  /\ pc = "serving"
  /\ app_state.keys = {}

-----------------------------------------------------------------------------
(* venv/utils/chatbot_utils.py: the second copy of process_chat_query, run
   side by side with the first on the same input and the same answers of the
   external services *)

\* venv/utils has no translation_utils, rag_utils or config of its own among
\* the sources: the copy is run with the functions of the same names of
\* krishisakhi_api
venv_translate_text(text, src, dest, o) == translate_text(text, src, dest, o)
venv_rag_retrieve(query, index, docs, k, eo, so) ==
  rag_retrieve(query, index, docs, k, eo, so)
venv_LangName(code) == LangName(code)

\* venv lines 8-23: one multimodal call, the stripped text or the fixed
\* failure sentence
venv_analyze_image_with_gemini(image_bytes, o) ==
  analyze_image_with_gemini(image_bytes, o)

\* venv lines 40-52: the prompt ends after "provide a comprehensive answer"
venv_SynthesisPrompt(f) ==
  [svc |-> "llm_model.generate_content", kind |-> "synthesis",
   native_language_name |-> f.native_language_name,
   profile |-> f.profile, predictions |-> f.predictions,
   image_analysis |-> f.image_analysis, rag_context |-> f.rag_context,
   eng_query |-> f.eng_query,
   closing |-> <<>>]

\* venv lines 29-55: the statement that follows the stage at loc
venv_PcqNext(loc, image_bytes) ==
  CASE loc = "pcq_translate" ->
         IF Truthy(image_bytes) THEN "pcq_image" ELSE "pcq_retrieve"
    [] loc = "pcq_image" -> "pcq_retrieve"
    [] loc = "pcq_retrieve" -> "pcq_synthesize"

PcqStages == {"pcq_translate", "pcq_image", "pcq_retrieve", "pcq_synthesize"}

\* the answers the external services can give to the stage at loc
StepOutcomes(loc, f) ==
  CASE loc \in {"pcq_translate", "pcq_image", "pcq_synthesize"} ->
         {[gen |-> o] : o \in StageGenOutcomes}
    [] loc = "pcq_retrieve" ->
         {[eo |-> eo, so |-> so] :
            eo \in EmbedOutcomes, so \in SearchOutcomes(f.faiss_index, DefaultK)}
    [] OTHER -> {[done |-> TRUE]}

\* krishisakhi_api copy: the stage at loc of frame f under the answers o, as
\* the new frame, the events it adds and the next location
process_chat_query_step(f, loc, o) ==
  CASE loc = "pcq_translate" ->
         LET r == translate_text(f.query, f.language, "en", o.gen)
         IN  [frame |-> [f EXCEPT !.eng_query = r.ret,
                                  !.native_language_name = LangName(f.language),
                                  !.image_analysis = NoImageMarker],
              events |-> StageEvents("translate_text",
                                     <<f.query, f.language, "en">>, r),
              loc |-> PcqNext(loc, f.image_bytes)]
    [] loc = "pcq_image" ->
         LET r == analyze_image_with_gemini(f.image_bytes, o.gen)
         IN  [frame |-> [f EXCEPT !.image_analysis = r.ret],
              events |-> StageEvents("analyze_image_with_gemini",
                                     <<f.image_bytes>>, r),
              loc |-> PcqNext(loc, f.image_bytes)]
    [] loc = "pcq_retrieve" ->
         LET r == rag_retrieve(f.eng_query, f.faiss_index, f.docs,
                               DefaultK, o.eo, o.so)
         IN  [frame |-> [f EXCEPT !.rag_context = r.ret],
              events |-> StageEvents("rag_retrieve", <<f.eng_query, DefaultK>>, r),
              loc |-> PcqNext(loc, f.image_bytes)]
    [] loc = "pcq_synthesize" ->
         [frame |-> IF GenRaises(o.gen) THEN f
                    ELSE [f EXCEPT !.response = o.gen.text],
          events |-> <<Ext(SynthesisPrompt(f))>>,
          loc |-> IF GenRaises(o.gen) THEN "pcq_raised" ELSE "pcq_returned"]
    [] OTHER -> [frame |-> f, events |-> <<>>, loc |-> loc]

\* venv copy, lines 26-57
venv_process_chat_query_step(f, loc, o) ==
  CASE loc = "pcq_translate" ->
         LET r == venv_translate_text(f.query, f.language, "en", o.gen)
         IN  [frame |-> [f EXCEPT !.eng_query = r.ret,
                                  !.native_language_name =
                                     venv_LangName(f.language),
                                  !.image_analysis = NoImageMarker],
              events |-> StageEvents("translate_text",
                                     <<f.query, f.language, "en">>, r),
              loc |-> venv_PcqNext(loc, f.image_bytes)]
    [] loc = "pcq_image" ->
         LET r == venv_analyze_image_with_gemini(f.image_bytes, o.gen)
         IN  [frame |-> [f EXCEPT !.image_analysis = r.ret],
              events |-> StageEvents("analyze_image_with_gemini",
                                     <<f.image_bytes>>, r),
              loc |-> venv_PcqNext(loc, f.image_bytes)]
    [] loc = "pcq_retrieve" ->
         LET r == venv_rag_retrieve(f.eng_query, f.faiss_index, f.docs,
                                    DefaultK, o.eo, o.so)
         IN  [frame |-> [f EXCEPT !.rag_context = r.ret],
              events |-> StageEvents("rag_retrieve", <<f.eng_query, DefaultK>>, r),
              loc |-> venv_PcqNext(loc, f.image_bytes)]
    [] loc = "pcq_synthesize" ->
         [frame |-> IF GenRaises(o.gen) THEN f
                    ELSE [f EXCEPT !.response = o.gen.text],
          events |-> <<Ext(venv_SynthesisPrompt(f))>>,
          loc |-> IF GenRaises(o.gen) THEN "pcq_raised" ELSE "pcq_returned"]
    [] OTHER -> [frame |-> f, events |-> <<>>, loc |-> loc]

\* the venv copy's call: its frame, its location and its own event log
VenvInv(frame, loc, evs) ==
  [fn |-> "venv.process_chat_query", frame |-> frame, loc |-> loc, events |-> evs]

\* both copies start on the same arguments
InitCopies ==
  /\ app_state = AppStateEmpty
  /\ chat = Idle
  /\ events = <<>>
  /\ http = NoResponse
  /\ pc = "pcq_translate"
  /\ \E query \in QueryPool, language \in PipeLangs, image_bytes \in PipeImages,
        faiss_index \in PipeIndexes, docs \in PipeDocLists :
       /\ pcq = PcqFrame(query, "profile", "predictions", faiss_index, docs,
                         language, image_bytes)
       /\ inv = VenvInv(pcq, "pcq_translate", <<>>)

\* the krishisakhi_api copy runs the stage it is at and the venv copy runs the
\* stage it is at; where they are at the same stage the services answer both
\* alike
CopiesStep(stage) ==
  /\ pc = stage
  /\ \E oa \in StepOutcomes(pc, pcq), ob \in StepOutcomes(inv.loc, inv.frame) :
       /\ inv.loc = pc => ob = oa
       /\ LET a == process_chat_query_step(pcq, pc, oa)
              b == venv_process_chat_query_step(inv.frame, inv.loc, ob)
          IN  /\ pcq' = a.frame
              /\ events' = events \o a.events
              /\ pc' = a.loc
              /\ inv' = VenvInv(b.frame, b.loc, inv.events \o b.events)
  /\ UNCHANGED <<app_state, chat, http>>

CopiesTranslate == CopiesStep("pcq_translate")
CopiesImage == CopiesStep("pcq_image")
CopiesRetrieve == CopiesStep("pcq_retrieve")
CopiesSynthesize == CopiesStep("pcq_synthesize")

NextCopies ==
  CopiesTranslate \/ CopiesImage \/ CopiesRetrieve \/ CopiesSynthesize

SpecCopies == InitCopies /\ [][NextCopies]_vars

\* the step operator of the krishisakhi_api copy is the stage actions of
\* SpecPipeline
StepIsStageAction ==
  [][\E o \in StepOutcomes(pc, pcq) :
       LET a == process_chat_query_step(pcq, pc, o)
       IN  /\ pcq' = a.frame
           /\ events' = events \o a.events
           /\ pc' = a.loc]_vars

\* an event log with the closing paragraph of every synthesis prompt removed
EraseWording(evs) ==
  [i \in DOMAIN evs |->
     IF IsSynthesisCall(evs[i]) THEN [evs[i] EXCEPT !.data.closing = <<>>]
     ELSE evs[i]]

-----------------------------------------------------------------------------
(* main.py: two chat requests handled by one process between startup and
   shutdown.  chat_with_assistant is a coroutine: the event loop runs one
   request at a time and can change to the other one only where the handler
   awaits (lines 173 and 180) and where it ends *)

\* the locals of chat_with_assistant on entry
ChatFrame(text_query, text_lang, language_code, image_file, audio_file) ==
  [stage |-> "chat", text_query |-> text_query,
   text_lang |-> text_lang, language_code |-> language_code,
   image_file |-> image_file, audio_file |-> audio_file,
   farms |-> NoneObj, profile |-> NoneObj, user_query |-> None,
   transcribed_text |-> None, source_language |-> None,
   image_bytes |-> None, predictions |-> NoneObj]

\* one request: where its handler is, its frames, its response and its own
\* log of calls
Ctx(loc, frame, pframe, response, evs) ==
  [pc |-> loc, chat |-> frame, pcq |-> pframe, http |-> response, events |-> evs]

\* the answers the external services can give to the statement the request
\* is at
ChatStepOutcomes(c) ==
  CASE c.pc = "chat_profile" -> {[farms |-> f] : f \in FarmsAnswers}
    [] c.pc = "chat_transcribe" -> {[speech |-> so] : so \in SpeechOutcomes}
    [] c.pc = "chat_context" ->
         {[weather |-> w, po |-> po] :
            w \in WeatherOutcomes, po \in PredictionOutcomes}
    [] c.pc \in {"chat_translate_audio", "pcq_returned"} ->
         {[gen |-> o] : o \in StageGenOutcomes}
    [] OTHER -> StepOutcomes(c.pc, c.pcq)

\* what one statement group of chat_with_assistant writes to app_state: the
\* handler reads app_state["faiss_index"] and app_state["docs"] (line 187)
\* and assigns nothing
chat_with_assistant_state_pop(c, state) ==
  IF c.pc = "chat_pipeline" /\ "docs" \in state.keys
    THEN [state EXCEPT !.keys = @ \ {"docs"}, !.docs = <<>>]
    ELSE state

chat_with_assistant_state(c, state) == state

\* lines 164-195: the statement group at c.pc run on the shared app_state
\* with the answers o
chat_with_assistant_step(c, state, o) ==
  CASE c.pc = "chat_profile" ->
         LET profile == get_user_profile(o.farms)
             evs == c.events \o
                      <<Ext([svc |-> "crud.get_user_profile", method |-> "GET",
                             timeout |-> RequestTimeout])>>
         IN  IF ~DictTruthy(profile)
               THEN Ctx("done",
                        [c.chat EXCEPT !.farms = o.farms, !.profile = profile],
                        c.pcq, HTTPException(404, "User profile not found."), evs)
               ELSE Ctx(IF c.chat.audio_file /= None
                          THEN "chat_transcribe" ELSE "chat_check_query",
                        [c.chat EXCEPT
                           !.farms = o.farms,
                           !.profile = profile,
                           !.user_query = c.chat.text_query,
                           !.transcribed_text = None,
                           !.source_language =
                              DictGet(profile, "preferredLanguage", "en")],
                        c.pcq, c.http, evs)
    [] c.pc = "chat_transcribe" ->
         LET r == transcribe_audio_with_google(state, c.chat.audio_file,
                                               c.chat.source_language, o.speech)
             evs == c.events \o [i \in 1..Len(r.calls) |-> Ext(r.calls[i])]
         IN  IF r.status /= 0
               THEN Ctx("done", c.chat, c.pcq,
                        HTTPException(r.status, "transcription"), evs)
               ELSE Ctx("chat_translate_audio",
                        [c.chat EXCEPT !.transcribed_text = r.ret],
                        c.pcq, c.http, evs)
    [] c.pc = "chat_translate_audio" ->
         LET r == translate_text(c.chat.transcribed_text,
                                 c.chat.source_language, "en", o.gen)
         IN  Ctx("chat_check_query", [c.chat EXCEPT !.user_query = r.ret],
                 c.pcq, c.http,
                 c.events \o StageEvents("translate_text",
                   <<c.chat.transcribed_text, c.chat.source_language, "en">>, r))
    [] c.pc = "chat_check_query" ->
         IF ~Truthy(c.chat.user_query)
           THEN Ctx("done", c.chat, c.pcq,
                    HTTPException(400, "No query provided."), c.events)
           ELSE Ctx("chat_context",
                    [c.chat EXCEPT !.image_bytes = c.chat.image_file],
                    c.pcq, c.http, c.events)
    [] c.pc = "chat_context" ->
         LET r == get_dashboard_predictions(c.chat.profile, o.weather, o.po)
         IN  Ctx("chat_pipeline", [c.chat EXCEPT !.predictions = r.ret],
                 c.pcq, c.http,
                 c.events \o <<Ext([svc |-> "fetch_weather"])>>
                   \o [i \in 1..Len(r.calls) |-> Ext(r.calls[i])])
    [] c.pc = "chat_pipeline" ->
         IF "faiss_index" \notin state.keys \/ "docs" \notin state.keys
           THEN Ctx("done", c.chat, c.pcq, InternalServerError, c.events)
           ELSE Ctx("pcq_translate", c.chat,
                    PcqFrame(c.chat.user_query, c.chat.profile,
                             c.chat.predictions, state.faiss_index, state.docs,
                             ChatPipelineLanguage, c.chat.image_bytes),
                    c.http, c.events)
    [] c.pc \in PcqStages ->
         LET st == process_chat_query_step(c.pcq, c.pc, o)
         IN  Ctx(st.loc, c.chat, st.frame, c.http, c.events \o st.events)
    [] c.pc = "pcq_raised" ->
         Ctx("done", c.chat, c.pcq, InternalServerError, c.events)
    [] c.pc = "pcq_returned" ->
         LET r == ChatAnswerOut(c.pcq.response, c.chat.language_code, o.gen)
         IN  Ctx("done", c.chat, c.pcq,
                 ChatResponse(r.ret, c.chat.transcribed_text),
                 c.events \o StageEvents("translate_text",
                   <<c.pcq.response, "en", c.chat.language_code>>, r))
    [] OTHER -> c

\* the step operator is the handler's actions of Spec: every step of a chat
\* request is a step of the operator under some answer
ThisRequest == Ctx(pc, chat, pcq, http, events)
StepIsChatAction ==
  [][(chat /= Idle /\ chat' /= Idle) =>
       /\ app_state' = chat_with_assistant_state(ThisRequest, app_state)
       /\ \E o \in ChatStepOutcomes(ThisRequest) :
            ThisRequest' = chat_with_assistant_step(ThisRequest, app_state, o)]_vars

\* the requests and the answers drawn for the two concurrent requests: a
\* typed question, and a spoken question with a picture
ConcInputs ==
  {ChatFrame(<<"a">>, "en", "hi", None, None),
   ChatFrame(None, "en", "hi", <<"I">>, <<"A">>)}
ConcFarms ==
  {NoneObj,
   [py |-> "list",
    items |-> <<[py |-> "dict", village |-> "v", preferredLanguage |-> "hi"]>>]}
ConcGen == {[kind |-> "raise"], [kind |-> "text", text |-> <<"a">>]}
ConcAnswer(o) ==
  /\ "farms" \in DOMAIN o => o.farms \in ConcFarms
  /\ "speech" \in DOMAIN o => o.speech.kind /= "no_results"
  /\ "gen" \in DOMAIN o => o.gen \in ConcGen
  /\ "po" \in DOMAIN o =>
        o.po = "report" /\ "temperature" \in DOMAIN o.weather
  /\ "eo" \in DOMAIN o => o.eo = "ok"
ConcOutcomes(c) == {o \in ChatStepOutcomes(c) : ConcAnswer(o)}

\* a request as the server holds it: what arrived, where the handler is, and
\* the answers its own calls were given, in order
Request(inputs) ==
  [inputs |-> inputs,
   ctx |-> Ctx("chat_profile", inputs, Idle, NoResponse, <<>>),
   answers |-> <<>>]

InFlight(r) == r.answers /= <<>> /\ r.ctx.pc /= "done"

\* the coroutine that has reached c gives the event loop up: it awaits
\* audio_file.read() (line 173) or image_file.read() (line 180), or it ended
Yields(c) ==
  \/ c.pc = "done"
  \/ c.pc = "chat_transcribe"
  \/ c.pc = "chat_context" /\ c.chat.image_file /= None

\* two requests arrive at the serving process; loaded is app_state as the
\* lifespan left it
ConcArrive ==
  /\ pc = "serving"
  /\ inv = NoInv
  /\ \E in1 \in ConcInputs, in2 \in ConcInputs :
       inv' = [fn |-> "chat_with_assistant", loaded |-> app_state, turn |-> 0,
               overlapped |-> FALSE,
               reqs |-> <<Request(in1), Request(in2)>>]
  /\ UNCHANGED <<pc, app_state, chat, pcq, events, http>>

\* the event loop runs request i up to its next statement group
ConcStep(i) ==
  /\ inv.fn = "chat_with_assistant"
  /\ inv.turn \in {0, i}
  /\ inv.reqs[i].ctx.pc /= "done"
  /\ \E o \in ConcOutcomes(inv.reqs[i].ctx) :
       LET c == inv.reqs[i].ctx
           c2 == chat_with_assistant_step(c, app_state, o)
       IN  /\ inv' = [inv EXCEPT
                        !.reqs[i] = [@ EXCEPT !.ctx = c2,
                                              !.answers = Append(@, o)],
                        !.turn = IF Yields(c2) THEN 0 ELSE i,
                        !.overlapped = @ \/ InFlight(inv.reqs[3 - i])]
           /\ app_state' = chat_with_assistant_state(c, app_state)
  /\ UNCHANGED <<pc, chat, pcq, events, http>>

ConcStepFirst == ConcStep(1)
ConcStepSecond == ConcStep(2)

NextConcurrent == Startup \/ ConcArrive \/ ConcStepFirst \/ ConcStepSecond

SpecConcurrent == Init /\ [][NextConcurrent]_vars

\* the request run alone: the handler started on the inputs with the loaded
\* app_state and given the answers in order
RECURSIVE RunAlone(_, _, _)
RunAlone(c, state, answers) ==
  IF answers = <<>> THEN c
  ELSE RunAlone(chat_with_assistant_step(c, state, Head(answers)),
                chat_with_assistant_state(c, state), Tail(answers))

\* C30: however the two chat requests are interleaved, each one is where it
\* would be, with the response, the frames and the calls it would have, had
\* it run alone on its own inputs, the loaded index and documents and the
\* answers given to its own calls
C30_SameAsAlone ==
  inv.fn = "chat_with_assistant" =>
    \A i \in {1, 2} :
      inv.reqs[i].ctx =
        RunAlone(Request(inv.reqs[i].inputs).ctx, inv.loaded, inv.reqs[i].answers)

\* both requests were answered with a chat response after running
\* interleaved: each took a step while the other was under way
C30_Witness ==
  /\ inv.fn = "chat_with_assistant"
  /\ inv.overlapped
  /\ \A i \in {1, 2} :
       /\ inv.reqs[i].ctx.pc = "done"
       /\ inv.reqs[i].ctx.http.status = 200
  /\ \E i \in {1, 2} : inv.reqs[i].inputs.audio_file /= None
====
